---------------------------- MODULE Spec2Model ----------------------------
(***************************************************************************)
(* StoragePilot: the rule-based file classifier of src/tools/classifier.py *)
(* (FileClassifier) as a state machine.  One classifier instance owns the  *)
(* two correlation maps seen_hashes and seen_filenames; classify_file      *)
(* reads and extends them and returns a FileClassification;                *)
(* generate_organization_plan groups classifications by action.            *)
(*                                                                         *)
(* Strings are TLA+ strings; a character is a string of length 1.          *)
(* Optional values: None is <<>>, a present value v is <<v>>.              *)
(* Confidence is kept in hundredths (0.95 is 95).                          *)
(***************************************************************************)
EXTENDS Integers, Sequences, FiniteSets, TLC

VARIABLES
    seen_hashes,      \* FileClassifier.seen_hashes: fingerprint -> first path
    seen_filenames,   \* FileClassifier.seen_filenames: base name -> list of paths
    calls,            \* the classify_file calls made so far: <<file_path, file_hash>>
    returned,         \* the FileClassification returned by each call, in call order
    plan_input,       \* the list given to generate_organization_plan, when it
                      \* was the last operation called
    plan,             \* the plan it returned (None when the last operation
                      \* was not generate_organization_plan)
    listing,          \* the entries of the directory given to classify_files,
                      \* in iterdir() order (None before the tool is called)
    error,            \* the exception the last tool call ended with, or None
    threads,          \* concurrent callers of classify_file on the instance:
                      \* position in the method, arguments and locals
    base_destinations, \* FileClassifier.base_destinations: category -> base dir
    base_destinations_arg, \* the base_destinations argument the instance was
                      \* built with (None when none was given)
    SCAN_STATES,      \* dashboard: scan_id -> ScanState (status, progress, result)
                      \* with the position of its background _run_scan task
    executing,        \* dashboard: scan_id -> the execute_clean request that
                      \* is between its two status assignments
    response,         \* dashboard: the response last sent to a client
    config_file,      \* dashboard: the mapping stored in config/config.yaml
                      \* (None while the file does not exist)
    tool_calls,       \* the methods called on the TerminalTools instance in
                      \* use, in call order
    effects,          \* what that instance really did: subprocesses started
                      \* and target paths created, copied or written, in order
    tools,            \* the TerminalTools instance in use: dry_run and
                      \* action_history (None before one is constructed)
    poller,           \* a client polling GET /api/scan/{id}/logs: the offset
                      \* it will send next and what it has received
    broadcast,        \* the _broadcast call suspended in a send, and the
                      \* clients the last finished one delivered to
    websockets        \* the websocket connections clients have opened:
                      \* whether each is open, gone or closed

vars == <<seen_hashes, seen_filenames, calls, returned, plan_input, plan,
          listing, error, threads, base_destinations, base_destinations_arg,
          SCAN_STATES, executing, response,
          config_file, tool_calls, effects, tools, poller, broadcast, websockets>>

service_vars == <<config_file, tool_calls, effects, tools, poller, broadcast,
                  websockets>>
dashboard_vars == <<SCAN_STATES, executing, response, service_vars>>
classifier_vars == <<seen_hashes, seen_filenames, calls, returned, plan_input, plan,
                     listing, error, threads, base_destinations,
                     base_destinations_arg>>

None == <<>>
Some(v) == <<v>>

-----------------------------------------------------------------------------
(* Python str primitives                                                   *)

Char(s, i) == SubSeq(s, i, i)

UpperChars == "ABCDEFGHIJKLMNOPQRSTUVWXYZ"
LowerChars == "abcdefghijklmnopqrstuvwxyz"
DigitChars == "0123456789"

\* str.lower() / str.upper() on one character (ASCII letters)
LowerOf == [c \in {Char(UpperChars, i) : i \in 1..Len(UpperChars)} |->
              Char(LowerChars, CHOOSE i \in 1..Len(UpperChars) : Char(UpperChars, i) = c)]
UpperOf == [c \in {Char(LowerChars, i) : i \in 1..Len(LowerChars)} |->
              Char(UpperChars, CHOOSE i \in 1..Len(LowerChars) : Char(LowerChars, i) = c)]
DigitSet == {Char(DigitChars, i) : i \in 1..Len(DigitChars)}

LowerChar(c) == IF c \in DOMAIN LowerOf THEN LowerOf[c] ELSE c
UpperChar(c) == IF c \in DOMAIN UpperOf THEN UpperOf[c] ELSE c

IsDigit(c) == c \in DigitSet
IsSpace(c) == c = " "

RECURSIVE Lower(_)
Lower(s) ==
    IF Len(s) = 0 THEN ""
    ELSE LowerChar(Char(s, 1)) \o Lower(SubSeq(s, 2, Len(s)))

\* str.capitalize(): first character upper-cased, the rest lower-cased
Capitalize(s) ==
    IF Len(s) = 0 THEN ""
    ELSE UpperChar(Char(s, 1)) \o Lower(SubSeq(s, 2, Len(s)))

\* str.endswith (case-sensitive)
EndsWith(s, t) ==
    /\ Len(t) <= Len(s)
    /\ SubSeq(s, Len(s) - Len(t) + 1, Len(s)) = t

\* `t in s`
Contains(s, t) ==
    \E i \in 1..(Len(s) - Len(t) + 1) : SubSeq(s, i, i + Len(t) - 1) = t

\* str.rfind(c) as a 1-based position, 0 when c does not occur
RFind(s, c) ==
    LET hits == {i \in 1..Len(s) : Char(s, i) = c}
    IN  IF hits = {} THEN 0 ELSE CHOOSE i \in hits : \A j \in hits : j <= i

Max(S) == CHOOSE x \in S : \A y \in S : y <= x
Min(S) == CHOOSE x \in S : \A y \in S : x <= y

\* the elements of a list
Range(seq) == {seq[k] : k \in 1..Len(seq)}

-----------------------------------------------------------------------------
(* pathlib.PurePath: name, suffix, stem                                    *)

RECURSIVE StripSlashes(_)
StripSlashes(p) ==
    IF Len(p) > 1 /\ Char(p, Len(p)) = "/"
    THEN StripSlashes(SubSeq(p, 1, Len(p) - 1))
    ELSE p

\* Path(p).name: the last component
PathName(p) ==
    LET q == StripSlashes(p)
    IN  SubSeq(q, RFind(q, "/") + 1, Len(q))

\* Path(p).suffix: from the last dot of the name, unless the dot is the
\* first or the last character of the name
PathSuffix(p) ==
    LET name == PathName(p)
        i    == RFind(name, ".")
    IN  IF 1 < i /\ i < Len(name) THEN SubSeq(name, i, Len(name)) ELSE ""

\* Path(p).stem: the name without its suffix
PathStem(p) ==
    LET name == PathName(p)
        i    == RFind(name, ".")
    IN  IF 1 < i /\ i < Len(name) THEN SubSeq(name, 1, i - 1) ELSE name

\* os.path.join(a, b) for a relative b
PathJoin(a, b) ==
    IF Len(b) > 0 /\ Char(b, 1) = "/" THEN b
    ELSE IF Len(a) = 0 \/ Char(a, Len(a)) = "/" THEN a \o b
    ELSE a \o "/" \o b

-----------------------------------------------------------------------------
(* re.match(pattern, text, re.IGNORECASE) for the pattern shapes the       *)
(* classifier uses.  A pattern is a sequence of tokens:                    *)
(*   Lit(s)          the literal s, compared case-insensitively (kept      *)
(*                   lower-cased)                                          *)
(*   Rep(cls, lo, hi) lo..hi characters of class cls ("dot", "digit",      *)
(*                   "space"); hi = -1 is unbounded                        *)
(* re.match anchors at the start of the text only.                         *)

Lit(s)            == [kind |-> "lit", s |-> Lower(s), cls |-> "", lo |-> 0, hi |-> 0]
Rep(cls, lo, hi)  == [kind |-> "rep", s |-> "", cls |-> cls, lo |-> lo, hi |-> hi]
DotStar           == Rep("dot", 0, -1)      \* .*
DotPlus           == Rep("dot", 1, -1)      \* .+  (the capture group (.+))
DigitPlus         == Rep("digit", 1, -1)    \* \d+
Digits(n)         == Rep("digit", n, n)     \* \d{n}
SpaceStar         == Rep("space", 0, -1)    \* \s*

InClass(cls, c) ==
    CASE cls = "dot"   -> c # "\n"
      [] cls = "digit" -> IsDigit(c)
      [] cls = "space" -> IsSpace(c)

\* how many consecutive characters of class cls the text has from pos on
RECURSIVE Run(_, _, _)
Run(cls, text, pos) ==
    IF pos <= Len(text) /\ InClass(cls, Char(text, pos))
    THEN 1 + Run(cls, text, pos + 1)
    ELSE 0

\* the positions at which a match of tokens k.. that starts at pos can end
RECURSIVE Ends(_, _, _, _)
Ends(toks, k, text, pos) ==
    IF k > Len(toks) THEN {pos}
    ELSE LET t == toks[k] IN
         IF t.kind = "lit"
         THEN IF /\ pos + Len(t.s) - 1 <= Len(text)
                 /\ LowerChar(Char(text, pos)) = Char(t.s, 1)
                 /\ Lower(SubSeq(text, pos, pos + Len(t.s) - 1)) = t.s
              THEN Ends(toks, k + 1, text, pos + Len(t.s))
              ELSE {}
         ELSE LET run == Run(t.cls, text, pos)
                  top == IF t.hi < 0 \/ run < t.hi THEN run ELSE t.hi
              IN  UNION {Ends(toks, k + 1, text, pos + n) : n \in t.lo..top}

ReMatch(toks, text) == Ends(toks, 1, text, 1) # {}

\* match.groups()[0] of a successful match of a pattern that starts with the
\* greedy group (.+): the longest prefix after which the rest still matches
Group1(toks, text) ==
    LET lens == {n \in 1..Len(text) : Ends(toks, 2, text, n + 1) # {}}
    IN  SubSeq(text, 1, Max(lens))

-----------------------------------------------------------------------------
(* FileClassifier class tables                                             *)

\* extension -> <<category, subcategory>>
CATEGORY_MAP ==
       ".pdf" :> <<"documents", "general">>
    @@ ".doc" :> <<"documents", "word">>
    @@ ".docx" :> <<"documents", "word">>
    @@ ".txt" :> <<"documents", "text">>
    @@ ".md" :> <<"documents", "markdown">>
    @@ ".rtf" :> <<"documents", "text">>
    @@ ".odt" :> <<"documents", "text">>
    @@ ".xls" :> <<"documents", "spreadsheet">>
    @@ ".xlsx" :> <<"documents", "spreadsheet">>
    @@ ".csv" :> <<"data", "tabular">>
    @@ ".ppt" :> <<"documents", "presentation">>
    @@ ".pptx" :> <<"documents", "presentation">>
    @@ ".jpg" :> <<"images", "photo">>
    @@ ".jpeg" :> <<"images", "photo">>
    @@ ".png" :> <<"images", "graphic">>
    @@ ".gif" :> <<"images", "animated">>
    @@ ".webp" :> <<"images", "web">>
    @@ ".svg" :> <<"images", "vector">>
    @@ ".bmp" :> <<"images", "bitmap">>
    @@ ".ico" :> <<"images", "icon">>
    @@ ".heic" :> <<"images", "photo">>
    @@ ".raw" :> <<"images", "raw">>
    @@ ".mp4" :> <<"videos", "general">>
    @@ ".mov" :> <<"videos", "general">>
    @@ ".avi" :> <<"videos", "general">>
    @@ ".mkv" :> <<"videos", "general">>
    @@ ".wmv" :> <<"videos", "general">>
    @@ ".webm" :> <<"videos", "web">>
    @@ ".mp3" :> <<"audio", "music">>
    @@ ".wav" :> <<"audio", "raw">>
    @@ ".flac" :> <<"audio", "lossless">>
    @@ ".aac" :> <<"audio", "music">>
    @@ ".ogg" :> <<"audio", "music">>
    @@ ".m4a" :> <<"audio", "music">>
    @@ ".py" :> <<"code", "python">>
    @@ ".js" :> <<"code", "javascript">>
    @@ ".ts" :> <<"code", "typescript">>
    @@ ".jsx" :> <<"code", "react">>
    @@ ".tsx" :> <<"code", "react">>
    @@ ".java" :> <<"code", "java">>
    @@ ".go" :> <<"code", "golang">>
    @@ ".rs" :> <<"code", "rust">>
    @@ ".cpp" :> <<"code", "cpp">>
    @@ ".c" :> <<"code", "c">>
    @@ ".h" :> <<"code", "header">>
    @@ ".cs" :> <<"code", "csharp">>
    @@ ".rb" :> <<"code", "ruby">>
    @@ ".php" :> <<"code", "php">>
    @@ ".swift" :> <<"code", "swift">>
    @@ ".kt" :> <<"code", "kotlin">>
    @@ ".sh" :> <<"code", "shell">>
    @@ ".bash" :> <<"code", "shell">>
    @@ ".zsh" :> <<"code", "shell">>
    @@ ".sql" :> <<"code", "sql">>
    @@ ".html" :> <<"code", "web">>
    @@ ".css" :> <<"code", "web">>
    @@ ".scss" :> <<"code", "web">>
    @@ ".less" :> <<"code", "web">>
    @@ ".json" :> <<"data", "json">>
    @@ ".xml" :> <<"data", "xml">>
    @@ ".yaml" :> <<"data", "yaml">>
    @@ ".yml" :> <<"data", "yaml">>
    @@ ".toml" :> <<"data", "config">>
    @@ ".ini" :> <<"data", "config">>
    @@ ".env" :> <<"data", "config">>
    @@ ".db" :> <<"data", "database">>
    @@ ".sqlite" :> <<"data", "database">>
    @@ ".sqlite3" :> <<"data", "database">>
    @@ ".h5" :> <<"models", "keras">>
    @@ ".pt" :> <<"models", "pytorch">>
    @@ ".pth" :> <<"models", "pytorch">>
    @@ ".onnx" :> <<"models", "onnx">>
    @@ ".pkl" :> <<"models", "pickle">>
    @@ ".joblib" :> <<"models", "sklearn">>
    @@ ".safetensors" :> <<"models", "safetensors">>
    @@ ".ckpt" :> <<"models", "checkpoint">>
    @@ ".zip" :> <<"archives", "zip">>
    @@ ".tar" :> <<"archives", "tar">>
    @@ ".gz" :> <<"archives", "gzip">>
    @@ ".tar.gz" :> <<"archives", "targz">>
    @@ ".tgz" :> <<"archives", "targz">>
    @@ ".rar" :> <<"archives", "rar">>
    @@ ".7z" :> <<"archives", "7zip">>
    @@ ".bz2" :> <<"archives", "bzip2">>
    @@ ".dmg" :> <<"installers", "macos">>
    @@ ".pkg" :> <<"installers", "macos">>
    @@ ".exe" :> <<"installers", "windows">>
    @@ ".msi" :> <<"installers", "windows">>
    @@ ".deb" :> <<"installers", "linux">>
    @@ ".rpm" :> <<"installers", "linux">>
    @@ ".appimage" :> <<"installers", "linux">>
    @@ ".log" :> <<"system", "logs">>
    @@ ".tmp" :> <<"system", "temp">>
    @@ ".bak" :> <<"system", "backup">>
    @@ ".swp" :> <<"system", "swap">>
    @@ ".DS_Store" :> <<"system", "macos">>

\* dict order is insertion order: the order of the literal
DOCUMENT_KEYWORDS == <<
    <<"invoice", "finance", "invoices">>,
    <<"receipt", "finance", "receipts">>,
    <<"bill", "finance", "bills">>,
    <<"payment", "finance", "payments">>,
    <<"tax", "finance", "tax">>,
    <<"w2", "finance", "tax">>,
    <<"1099", "finance", "tax">>,
    <<"contract", "legal", "contracts">>,
    <<"agreement", "legal", "agreements">>,
    <<"nda", "legal", "nda">>,
    <<"terms", "legal", "terms">>,
    <<"resume", "career", "resumes">>,
    <<"cv", "career", "resumes">>,
    <<"cover_letter", "career", "cover_letters">>,
    <<"meeting", "work", "meetings">>,
    <<"notes", "work", "notes">>,
    <<"presentation", "work", "presentations">>,
    <<"report", "work", "reports">>,
    <<"proposal", "work", "proposals">>,
    <<"screenshot", "images", "screenshots">>,
    <<"screen_shot", "images", "screenshots">>,
    <<"capture", "images", "screenshots">>
>>

SCREENSHOT_PATTERNS == <<
    <<Lit("Screenshot"), DotStar>>,
    <<Lit("Screen Shot"), DotStar>>,
    <<Lit("Capture"), DotStar>>,
    <<Lit("Schermata"), DotStar>>,
    <<Lit("Captura"), DotStar>>,
    <<Lit("Bildschirmfoto"), DotStar>>
>>

PHOTO_PATTERNS == <<
    <<Lit("IMG_"), DigitPlus>>,
    <<Lit("DSC_"), DigitPlus>>,
    <<Lit("DCIM"), DotStar>>,
    <<Lit("Photo_"), DigitPlus>>,
    <<Lit("PXL_"), DigitPlus>>,
    <<Digits(8), Lit("_"), Digits(6)>>
>>

\* every pattern starts with the capture group (.+)
VERSION_PATTERNS == <<
    <<DotPlus, Lit("_v"), DigitPlus>>,
    <<DotPlus, Lit("_version"), DigitPlus>>,
    <<DotPlus, Lit("_final")>>,
    <<DotPlus, Lit("_FINAL")>>,
    <<DotPlus, Lit("_copy")>>,
    <<DotPlus, Lit("_Copy")>>,
    <<DotPlus, SpaceStar, Lit("("), DigitPlus, Lit(")")>>,
    <<DotPlus, Lit("_"), Digits(8)>>
>>

\* the mapping __init__ installs when the caller gives none
DefaultDestinations ==
       "documents" :> "~/Documents/Sorted"
    @@ "images" :> "~/Pictures/Sorted"
    @@ "videos" :> "~/Videos/Sorted"
    @@ "audio" :> "~/Music/Sorted"
    @@ "code" :> "~/workspace/code_downloads"
    @@ "data" :> "~/workspace/data"
    @@ "models" :> "~/workspace/models"
    @@ "archives" :> "~/Downloads/Archives"
    @@ "installers" :> "~/.Trash"
    @@ "system" :> "~/.Trash"

-----------------------------------------------------------------------------
(* FileClassifier helpers                                                  *)

\* for pattern in patterns: if re.match(pattern, text, re.IGNORECASE)
_matches_patterns(text, patterns) ==
    \E i \in 1..Len(patterns) : ReMatch(patterns[i], text)

\* mutant: the keyword that occurs leftmost in the filename wins
_analyze_document_name_Leftmost(filename) ==
    LET filename_lower == Lower(filename)
        hits == {i \in 1..Len(DOCUMENT_KEYWORDS) :
                    Contains(filename_lower, DOCUMENT_KEYWORDS[i][1])}
        At(i) == Min({n \in 1..(Len(filename_lower) - Len(DOCUMENT_KEYWORDS[i][1]) + 1) :
                        SubSeq(filename_lower, n, n + Len(DOCUMENT_KEYWORDS[i][1]) - 1)
                            = DOCUMENT_KEYWORDS[i][1]})
    IN  IF hits = {} THEN None
        ELSE LET kw == DOCUMENT_KEYWORDS[CHOOSE i \in hits : \A j \in hits : At(i) <= At(j)]
             IN  Some(<<IF kw[2] # "images" THEN kw[2] ELSE "documents", kw[3]>>)

\* the first keyword, in table order, that occurs in the lower-cased
\* filename; a keyword of the "images" group is reported as "documents"
_analyze_document_name(filename) ==
    LET filename_lower == Lower(filename)
        hits == {i \in 1..Len(DOCUMENT_KEYWORDS) :
                    Contains(filename_lower, DOCUMENT_KEYWORDS[i][1])}
    IN  IF hits = {} THEN None
        ELSE LET kw == DOCUMENT_KEYWORDS[CHOOSE i \in hits : \A j \in hits : i <= j]
             IN  Some(<<IF kw[2] # "images" THEN kw[2] ELSE "documents", kw[3]>>)

\* mutant: the whole stem is taken as the base identity
_check_version_pattern_WholeStem(filename) ==
    LET base_name == PathStem(filename)
    IN  IF \E i \in 1..Len(VERSION_PATTERNS) : ReMatch(VERSION_PATTERNS[i], base_name)
        THEN Some(base_name)
        ELSE None

\* match.groups() of the first version pattern that matches the stem; only
\* groups()[0] is ever read by the caller, so only it is kept
_check_version_pattern(filename) ==
    LET base_name == PathStem(filename)
        hits == {i \in 1..Len(VERSION_PATTERNS) :
                    ReMatch(VERSION_PATTERNS[i], base_name)}
    IN  IF hits = {} THEN None
        ELSE Some(Group1(VERSION_PATTERNS[CHOOSE i \in hits : \A j \in hits : i <= j],
                         base_name))

\* mutant: the installer rule is tried before the duplicate rule
_determine_action_InstallersFirst(category, subcategory, is_duplicate) ==
    IF category = "installers" THEN "delete"
    ELSE IF is_duplicate THEN "review"
    ELSE IF category = "system" THEN "delete"
    ELSE IF category = "unknown" THEN "review"
    ELSE "move"

\* mutant: the unknown rule is missing
_determine_action_UnknownMoves(category, subcategory, is_duplicate) ==
    IF is_duplicate THEN "review"
    ELSE IF category = "installers" THEN "delete"
    ELSE IF category = "system" THEN "delete"
    ELSE "move"

_determine_action(category, subcategory, is_duplicate) ==
    IF is_duplicate THEN "review"
    ELSE IF category = "installers" THEN "delete"
    ELSE IF category = "system" THEN "delete"
    ELSE IF category = "unknown" THEN "review"
    ELSE "move"

\* str(n) for n >= 0
RECURSIVE IntToStr(_)
IntToStr(n) ==
    IF n < 10 THEN Char(DigitChars, n + 1)
    ELSE IntToStr(n \div 10) \o Char(DigitChars, (n % 10) + 1)

\* f"{n:02d}"
TwoDigits(n) == IF n < 10 THEN "0" \o IntToStr(n) ELSE IntToStr(n)

\* now is datetime.now() at the time of the call
\* mutant: the subcategory folder is added for "general" too
_build_destination_GeneralFolder(destinations, category, subcategory, filename, now) ==
    LET base  == IF category \in DOMAIN destinations THEN destinations[category]
                 ELSE "~/Downloads/Sorted/Other"
        dest1 == IF subcategory # ""
                 THEN PathJoin(base, Capitalize(subcategory))
                 ELSE base
        dest2 == IF subcategory = "photos"
                 THEN PathJoin(PathJoin(dest1, IntToStr(now.year)), TwoDigits(now.month))
                 ELSE dest1
    IN  PathJoin(dest2, filename)

_build_destination(destinations, category, subcategory, filename, now) ==
    LET base  == IF category \in DOMAIN destinations
                 THEN destinations[category]
                 ELSE "~/Downloads/Sorted/Other"
        dest1 == IF subcategory # "" /\ subcategory # "general"
                 THEN PathJoin(base, Capitalize(subcategory))
                 ELSE base
        dest2 == IF subcategory = "photos"
                 THEN PathJoin(PathJoin(dest1, IntToStr(now.year)), TwoDigits(now.month))
                 ELSE dest1
    IN  PathJoin(dest2, filename)

\* "; ".join(reasons); duplicate_of is None or Some(text)
_build_reason(category, subcategory, is_duplicate, duplicate_of) ==
    LET dup  == IF is_duplicate
                THEN "Duplicate detected: "
                     \o (IF duplicate_of = None THEN "None" ELSE duplicate_of[1]) \o "; "
                ELSE ""
        inst == IF category = "installers"
                THEN "; Installers can be re-downloaded when needed"
                ELSE ""
    IN  dup \o "Classified as " \o category \o "/" \o subcategory \o inst

-----------------------------------------------------------------------------
(* Inputs                                                                  *)

MaxCalls == 3        \* classify_file calls on one shared instance
MaxPlanLen == 3      \* length of a hand-made list given to the aggregator
MaxSingleCalls == 1  \* classify_single_file calls in one behaviour
MaxRepeats == 1      \* classify_single_file calls that repeat an earlier path

\* paths given to one shared instance: three versions of one report, an
\* installer and a system file
Paths == {"/dl/report_v1.pdf", "/dl/report_v2.pdf", "/dl/report_final.pdf",
          "/dl/setup.exe", "/dl/debug.log", "/dl/data.xyz"}

\* fingerprints: absent, empty, and two digests
Hashes == {None, Some(""), Some("h1"), Some("h2")}

\* values of datetime.now()
Nows == {[year |-> 2024, month |-> 3], [year |-> 2025, month |-> 11]}

\* file names for single-file classification: prefix, core and extension
NamePrefixes == {"", "screenshot ", "IMG_12", "IMG_x", "20240115_093000_"}
NameCores    == {"file", "tax_invoice", "old_capture", "cv_final"}
NameExts     == {".pdf", ".PDF", ".png", ".dmg", ".pkg", ".exe", ".msi", ".deb",
                 ".rpm", ".appimage", ".log", ".xyz", "", ".tar.gz", ".tar.bz2"}
OddNames     == {".DS_Store", ".bashrc", "archive.", "Makefile", "a.TAR.GZ",
                 "a.bz2", "notes (1).txt", "x.DS_Store", "setup.EXE", "nda_contract.pdf",
                 "cover_letter.pdf", "a.7z"}

SinglePaths ==
    {"/dl/" \o pre \o core \o ext :
        pre \in NamePrefixes, core \in NameCores, ext \in NameExts}
    \cup {"/dl/" \o n : n \in OddNames}

SeqsUpTo(S, n) == UNION {[1..k -> S] : k \in 0..n}

\* directory entries for classify_directory: what is_file() finds for the
\* entry (a regular file, a directory, an entry that vanished after the
\* listing, an entry whose stat is refused), and whether classify_file
\* raises for it
Directory == "/dl"
DirEntry(name, kind, raises) == [name |-> name, kind |-> kind, raises |-> raises]
DirEntries == {
    DirEntry("invoice_march.pdf", "file", FALSE),
    DirEntry("invoice_march (1).pdf", "file", FALSE),
    DirEntry("setup.exe", "file", FALSE),
    DirEntry("random.xyz", "file", FALSE),
    DirEntry("random.xyz", "file", TRUE),
    DirEntry(".DS_Store", "file", FALSE),
    DirEntry("sub", "dir", FALSE),
    DirEntry("gone.pdf", "gone", FALSE),
    DirEntry("link.pdf", "denied", FALSE)}
MaxDirLen == 4       \* entries in the directory

\* listings: sequences of entries with distinct names
Listings ==
    {l \in SeqsUpTo(DirEntries, MaxDirLen) :
        \A i, j \in 1..Len(l) : i # j => l[i].name # l[j].name}

DirPaths == {Directory \o "/" \o e.name : e \in DirEntries}

\* every path any specification classifies
\* archives for a reused instance: a versioned name under each archive
\* extension, a pattern-named one and an upper-case one
ArchivePaths ==
    {"/dl/backup_v1.tar.gz", "/dl/backup_v1.tar.bz2", "/dl/backup_v1.bz2",
     "/dl/file.tar.bz2", "/dl/screenshot file.tar.bz2", "/dl/a.TAR.GZ"}

AllPaths == Paths \cup SinglePaths \cup DirPaths \cup ArchivePaths

-----------------------------------------------------------------------------
(* FileClassifier.classify_file                                            *)

\* `if file_hash:` -- None and the empty string are both falsy
Truthy(file_hash) == file_hash # None /\ file_hash[1] # ""

Lookup(map, key, default) == IF key \in DOMAIN map THEN map[key] ELSE default

\* mutant: the extension is always the last suffix
ExtensionOf_LastSuffix(file_path) == Lower(PathSuffix(file_path))

\* extension: the lower-cased suffix, or the compound unit when the
\* filename ends (case-sensitively) in .tar.gz / .tar.bz2
ExtensionOf(file_path) ==
    LET filename == PathName(file_path)
    IN  IF EndsWith(filename, ".tar.gz") THEN ".tar.gz"
        ELSE IF EndsWith(filename, ".tar.bz2") THEN ".tar.bz2"
        ELSE Lower(PathSuffix(file_path))

\* mutant: the keyword matcher runs for every category
ResolveCategory_KeywordsAlways(filename, extension) ==
    LET base   == Lookup(CATEGORY_MAP, extension, <<"unknown", "unknown">>)
        conf   == IF base[1] # "unknown" THEN 90 ELSE 30
        detect == _analyze_document_name(filename)
    IN  IF _matches_patterns(filename, SCREENSHOT_PATTERNS)
        THEN [category |-> "images", subcategory |-> "screenshots", confidence |-> 95]
        ELSE IF _matches_patterns(filename, PHOTO_PATTERNS)
        THEN [category |-> "images", subcategory |-> "photos", confidence |-> 95]
        ELSE IF detect # None
        THEN [category |-> detect[1][1], subcategory |-> detect[1][2], confidence |-> 85]
        ELSE [category |-> base[1], subcategory |-> base[2], confidence |-> conf]

\* mutant: the keyword matcher is tried before the filename patterns
ResolveCategory_KeywordsFirst(filename, extension) ==
    LET base   == Lookup(CATEGORY_MAP, extension, <<"unknown", "unknown">>)
        conf   == IF base[1] # "unknown" THEN 90 ELSE 30
        detect == _analyze_document_name(filename)
    IN  IF base[1] = "documents" /\ detect # None
        THEN [category |-> detect[1][1], subcategory |-> detect[1][2], confidence |-> 85]
        ELSE IF _matches_patterns(filename, SCREENSHOT_PATTERNS)
        THEN [category |-> "images", subcategory |-> "screenshots", confidence |-> 95]
        ELSE IF _matches_patterns(filename, PHOTO_PATTERNS)
        THEN [category |-> "images", subcategory |-> "photos", confidence |-> 95]
        ELSE [category |-> base[1], subcategory |-> base[2], confidence |-> conf]

\* mutant: a pattern match keeps the confidence of the table lookup
ResolveCategory_ConfidenceKept(filename, extension) ==
    LET base   == Lookup(CATEGORY_MAP, extension, <<"unknown", "unknown">>)
        conf   == IF base[1] # "unknown" THEN 90 ELSE 30
        detect == IF base[1] = "documents"
                  THEN _analyze_document_name(filename) ELSE None
    IN  IF _matches_patterns(filename, SCREENSHOT_PATTERNS)
        THEN [category |-> "images", subcategory |-> "screenshots", confidence |-> conf]
        ELSE IF _matches_patterns(filename, PHOTO_PATTERNS)
        THEN [category |-> "images", subcategory |-> "photos", confidence |-> conf]
        ELSE IF detect # None
        THEN [category |-> detect[1][1], subcategory |-> detect[1][2], confidence |-> 85]
        ELSE [category |-> base[1], subcategory |-> base[2], confidence |-> conf]

\* category, subcategory and confidence: the table entry of the extension,
\* then screenshot pattern, elif photo pattern, elif document keywords
ResolveCategory(filename, extension) ==
    LET base   == Lookup(CATEGORY_MAP, extension, <<"unknown", "unknown">>)
        conf   == IF base[1] # "unknown" THEN 90 ELSE 30
        detect == _analyze_document_name(filename)
    IN  IF _matches_patterns(filename, SCREENSHOT_PATTERNS)
        THEN [category |-> "images", subcategory |-> "screenshots", confidence |-> 95]
        ELSE IF _matches_patterns(filename, PHOTO_PATTERNS)
        THEN [category |-> "images", subcategory |-> "photos", confidence |-> 95]
        ELSE IF base[1] = "documents" /\ detect # None
        THEN [category |-> detect[1][1], subcategory |-> detect[1][2], confidence |-> 85]
        ELSE [category |-> base[1], subcategory |-> base[2], confidence |-> conf]

\* mutant: the path of a fingerprint is overwritten by every later call
FingerprintSignal_Overwrite(hashes, file_path, file_hash) ==
    IF ~Truthy(file_hash)
    THEN [is_duplicate |-> FALSE, duplicate_of |-> None, seen_hashes |-> hashes]
    ELSE [is_duplicate |-> file_hash[1] \in DOMAIN hashes,
          duplicate_of |-> IF file_hash[1] \in DOMAIN hashes
                           THEN Some(hashes[file_hash[1]]) ELSE None,
          seen_hashes |-> (file_hash[1] :> file_path) @@ hashes]

\* mutant: a fingerprint recorded for this very path marks no duplicate
FingerprintSignal_SamePathIgnored(hashes, file_path, file_hash) ==
    IF ~Truthy(file_hash)
    THEN [is_duplicate |-> FALSE, duplicate_of |-> None, seen_hashes |-> hashes]
    ELSE IF file_hash[1] \in DOMAIN hashes /\ hashes[file_hash[1]] # file_path
    THEN [is_duplicate |-> TRUE, duplicate_of |-> Some(hashes[file_hash[1]]),
          seen_hashes |-> hashes]
    ELSE [is_duplicate |-> FALSE, duplicate_of |-> None,
          seen_hashes |-> (file_hash[1] :> file_path) @@ hashes]

\* the fingerprint check: a known fingerprint marks a duplicate of the path
\* recorded for it, an unknown one is recorded with this path
FingerprintSignal(hashes, file_path, file_hash) ==
    IF ~Truthy(file_hash)
    THEN [is_duplicate |-> FALSE, duplicate_of |-> None, seen_hashes |-> hashes]
    ELSE IF file_hash[1] \in DOMAIN hashes
    THEN [is_duplicate |-> TRUE, duplicate_of |-> Some(hashes[file_hash[1]]),
          seen_hashes |-> hashes]
    ELSE [is_duplicate |-> FALSE, duplicate_of |-> None,
          seen_hashes |-> (file_hash[1] :> file_path) @@ hashes]

\* mutant: a fingerprint duplicate is not re-marked by the version check
VersionSignal_KeepsPrior(filenames, file_path, version_match, prior) ==
        IF version_match = None
        THEN [is_duplicate |-> prior.is_duplicate, duplicate_of |-> prior.duplicate_of,
              seen_filenames |-> filenames]
        ELSE LET base_name == version_match[1]
                 known     == base_name \in DOMAIN filenames
                 old       == IF known THEN filenames[base_name] ELSE <<>>
             IN  [is_duplicate |-> IF known THEN TRUE ELSE prior.is_duplicate,
                  duplicate_of |-> IF known /\ ~prior.is_duplicate
                                   THEN Some("Version of: " \o old[1])
                                   ELSE prior.duplicate_of,
                  seen_filenames |->
                      (base_name :> Append(old, file_path)) @@ filenames]

\* mutant: a name matching no version pattern is recorded under its path
VersionSignal_RecordsEveryName(filenames, file_path, version_match, prior) ==
        IF version_match = None
        THEN [is_duplicate |-> prior.is_duplicate, duplicate_of |-> prior.duplicate_of,
              seen_filenames |-> (file_path :> <<file_path>>) @@ filenames]
        ELSE LET base_name == version_match[1]
                 known     == base_name \in DOMAIN filenames
                 old       == IF known THEN filenames[base_name] ELSE <<>>
             IN  [is_duplicate |-> IF known THEN TRUE ELSE prior.is_duplicate,
                  duplicate_of |-> IF known
                                   THEN Some("Version of: " \o old[1])
                                   ELSE prior.duplicate_of,
                  seen_filenames |->
                      (base_name :> Append(old, file_path)) @@ filenames]

\* mutant: the newest path is put at the head of the list
VersionSignal_NewestFirst(filenames, file_path, version_match, prior) ==
        IF version_match = None
        THEN [is_duplicate |-> prior.is_duplicate, duplicate_of |-> prior.duplicate_of,
              seen_filenames |-> filenames]
        ELSE LET base_name == version_match[1]
                 known     == base_name \in DOMAIN filenames
                 old       == IF known THEN filenames[base_name] ELSE <<>>
             IN  [is_duplicate |-> IF known THEN TRUE ELSE prior.is_duplicate,
                  duplicate_of |-> IF known
                                   THEN Some("Version of: " \o old[1])
                                   ELSE prior.duplicate_of,
                  seen_filenames |->
                      (base_name :> (<<file_path>> \o old)) @@ filenames]

\* the version check, run after the fingerprint check on its result `prior`
VersionSignal(filenames, file_path, version_match, prior) ==
        IF version_match = None
        THEN [is_duplicate |-> prior.is_duplicate, duplicate_of |-> prior.duplicate_of,
              seen_filenames |-> filenames]
        ELSE LET base_name == version_match[1]
                 known     == base_name \in DOMAIN filenames
                 old       == IF known THEN filenames[base_name] ELSE <<>>
             IN  [is_duplicate |-> IF known THEN TRUE ELSE prior.is_duplicate,
                  duplicate_of |-> IF known
                                   THEN Some("Version of: " \o old[1])
                                   ELSE prior.duplicate_of,
                  seen_filenames |->
                      (base_name :> Append(old, file_path)) @@ filenames]

\* the part of a call that depends on the path alone: filename, extension,
\* category and the version match
Static(file_path) ==
    LET filename  == PathName(file_path)
        extension == ExtensionOf(file_path)
    IN  [filename |-> filename,
         extension |-> extension,
         cat |-> ResolveCategory(filename, extension),
         version_match |-> _check_version_pattern(filename)]

\* Static, evaluated once per path
StaticOf == [p \in AllPaths |-> Static(p)]

\* the whole call: the classification returned and the two maps after it
classify_file(hashes, filenames, destinations, file_path, file_hash, now) ==
    LET st  == StaticOf[file_path]
        cat == st.cat
        fp  == FingerprintSignal(hashes, file_path, file_hash)
        ver == VersionSignal(filenames, file_path, st.version_match, fp)
    IN  [classification |->
            [path |-> file_path,
             filename |-> st.filename,
             extension |-> st.extension,
             category |-> cat.category,
             subcategory |-> cat.subcategory,
             confidence |-> cat.confidence,
             suggested_destination |->
                 _build_destination(destinations, cat.category, cat.subcategory,
                                    st.filename, now),
             action |-> _determine_action(cat.category, cat.subcategory,
                                          ver.is_duplicate),
             reason |-> _build_reason(cat.category, cat.subcategory,
                                      ver.is_duplicate, ver.duplicate_of),
             is_duplicate |-> ver.is_duplicate,
             duplicate_of |-> ver.duplicate_of],
         seen_hashes |-> fp.seen_hashes,
         seen_filenames |-> ver.seen_filenames]

-----------------------------------------------------------------------------
(* FileClassifier.generate_organization_plan                               *)

PlanEntry(c) ==
    LET entry == [source |-> c.path,
                  destination |-> c.suggested_destination,
                  category |-> c.category,
                  subcategory |-> c.subcategory,
                  reason |-> c.reason,
                  confidence |-> c.confidence]
    IN  IF c.is_duplicate
        THEN ("duplicate_of" :> c.duplicate_of) @@ entry
        ELSE entry

EmptyPlan == [move |-> <<>>, delete |-> <<>>, review |-> <<>>, keep |-> <<>>]

\* mutant: a duplicate is filed under review whatever its action
RECURSIVE generate_organization_plan_DupsToReview(_)
generate_organization_plan_DupsToReview(classifications) ==
    IF classifications = <<>> THEN EmptyPlan
    ELSE LET n    == Len(classifications)
             c    == classifications[n]
             rest == generate_organization_plan_DupsToReview(
                         SubSeq(classifications, 1, n - 1))
             key  == IF c.is_duplicate THEN "review" ELSE c.action
         IN  [rest EXCEPT ![key] = Append(@, PlanEntry(c))]

\* for c in classifications: plan[c.action].append(entry).  The action of
\* a FileClassification is one of move, delete, keep, review.
RECURSIVE generate_organization_plan(_)
generate_organization_plan(classifications) ==
    IF classifications = <<>> THEN EmptyPlan
    ELSE LET n    == Len(classifications)
             c    == classifications[n]
             rest == generate_organization_plan(SubSeq(classifications, 1, n - 1))
         IN  [rest EXCEPT ![c.action] = Append(@, PlanEntry(c))]

-----------------------------------------------------------------------------
(* FileClassifier.classify_directory                                       *)

\* Path.is_file(): stat() follows the entry; a missing entry gives False and
\* a refused stat raises PermissionError
IsFile(e) == e.kind = "file"
StatRaises(e) == e.kind = "denied"
StartsWithDot(name) == Len(name) > 0 /\ Char(name, 1) = "."

\* the loop over iterdir(): is_file() and the dot test are outside the try,
\* classify_file (called without a fingerprint) is inside it.  The result
\* records the exception that ended the loop, the classify_file calls made,
\* the classifications appended and the two maps.
RECURSIVE classify_directory(_, _, _, _, _, _)
classify_directory(hashes, filenames, destinations, directory_path, entries, now) ==
    IF entries = <<>>
    THEN [raised |-> None, calls |-> <<>>, classifications |-> <<>>,
          seen_hashes |-> hashes, seen_filenames |-> filenames]
    ELSE LET n         == Len(entries)
             e         == entries[n]
             sofar     == classify_directory(hashes, filenames, destinations,
                                             directory_path, SubSeq(entries, 1, n - 1), now)
             file_path == directory_path \o "/" \o e.name
             r         == classify_file(sofar.seen_hashes, sofar.seen_filenames,
                                        destinations, file_path, None, now)
         IN  IF sofar.raised # None THEN sofar
             ELSE IF StatRaises(e)
             THEN [sofar EXCEPT !.raised = Some("PermissionError")]
             ELSE IF ~(IsFile(e) /\ ~StartsWithDot(e.name)) THEN sofar
             ELSE IF e.raises
             THEN [sofar EXCEPT !.calls = Append(@, <<file_path, None>>)]
             ELSE [raised |-> None,
                   calls |-> Append(sofar.calls, <<file_path, None>>),
                   classifications |-> Append(sofar.classifications, r.classification),
                   seen_hashes |-> r.seen_hashes,
                   seen_filenames |-> r.seen_filenames]

-----------------------------------------------------------------------------
(* Concurrent callers of classify_file                                     *)

NumThreads == 2
Threads == 1..NumThreads
ThreadPaths == {"/dl/setup.exe", "/dl/report_v1.pdf", "/dl/report_v2.pdf"}
ThreadHashes == {None, Some("h1")}

\* a caller that has not called yet
IdleThread ==
    [pc |-> "idle", file_path |-> "", file_hash |-> None,
     is_duplicate |-> FALSE, duplicate_of |-> None,
     began |-> 0, result |-> 0]

-----------------------------------------------------------------------------
(* Clients of the dashboard, before any request                            *)

\* a polling client: the scan it follows, the offset of its next
\* GET /api/scan/{id}/logs, the log lines it has been sent, the progress
\* last reported to it, and what its request in progress has read
NewPoller == [scan_id |-> <<>>, offset |-> 0, received |-> <<>>, progress |-> <<>>,
              pending |-> <<>>]

\* no _broadcast call in progress, none finished yet
NoBroadcast == [active |-> FALSE, last |-> None]

NumClients == 3      \* websocket connections opened in one behaviour
Clients == 1..NumClients

-----------------------------------------------------------------------------
(* State machine                                                           *)

\* FileClassifier(): the default destinations, both maps empty
Init ==
    /\ base_destinations = DefaultDestinations
    /\ base_destinations_arg = None
    /\ seen_hashes = <<>>
    /\ seen_filenames = <<>>
    /\ calls = <<>>
    /\ returned = <<>>
    /\ plan_input = <<>>
    /\ plan = None
    /\ listing = None
    /\ error = None
    /\ threads = [t \in Threads |-> IdleThread]
    /\ SCAN_STATES = <<>>
    /\ executing = <<>>
    /\ response = None
    /\ config_file = None
    /\ tool_calls = <<>>
    /\ effects = <<>>
    /\ tools = None
    /\ poller = NewPoller
    /\ broadcast = NoBroadcast
    /\ websockets = [c \in Clients |-> "new"]

ClassifyFile(file_path, file_hash, now) ==
    LET r == classify_file(seen_hashes, seen_filenames, base_destinations,
                           file_path, file_hash, now)
    IN  /\ seen_hashes' = r.seen_hashes
        /\ seen_filenames' = r.seen_filenames
        /\ calls' = Append(calls, <<file_path, file_hash>>)
        /\ returned' = Append(returned, r.classification)
        /\ plan_input' = <<>>
        /\ plan' = None
        /\ UNCHANGED <<listing, error, threads, base_destinations,
                   base_destinations_arg, dashboard_vars>>

GenerateOrganizationPlan(classifications) ==
    /\ plan_input' = classifications
    /\ plan' = Some(generate_organization_plan(classifications))
    /\ UNCHANGED <<seen_hashes, seen_filenames, calls, returned, listing, error,
                   threads, base_destinations,
                   base_destinations_arg, dashboard_vars>>

\* datetime.now() is read only while building a photo destination
ClockReads(file_path) ==
    IF StaticOf[file_path].cat.subcategory = "photos"
    THEN Nows
    ELSE {CHOOSE now \in Nows : TRUE}

\* Spec: one instance, a sequential pass over files with optional
\* fingerprints, and plans of what it returned
Classify ==
    /\ Len(calls) < MaxCalls
    /\ \E file_path \in Paths, file_hash \in Hashes :
       \E now \in ClockReads(file_path) :
          ClassifyFile(file_path, file_hash, now)

PlanReturned == GenerateOrganizationPlan(returned)

Next == Classify \/ PlanReturned

Spec == Init /\ [][Next]_vars

\* SpecSingle: the classify_single_file tool.  Every call builds a fresh
\* FileClassifier() and classifies one path with no fingerprint; the
\* instance is dropped after the call.  (The tool returns the fields of the
\* classification as JSON; `returned` keeps the classification.)
\* mutant: the tool keeps using the instance of the previous call
classify_single_file_SharedInstance(file_path) ==
    \E now \in ClockReads(file_path) :
        LET r == classify_file(seen_hashes, seen_filenames, base_destinations,
                               file_path, None, now)
        IN  /\ base_destinations' = DefaultDestinations
            /\ base_destinations_arg' = None
            /\ seen_hashes' = r.seen_hashes
            /\ seen_filenames' = r.seen_filenames
            /\ calls' = Append(calls, <<file_path, None>>)
            /\ returned' = Append(returned, r.classification)
            /\ UNCHANGED <<plan_input, plan, listing, error, threads, dashboard_vars>>

classify_single_file(file_path) ==
    \E now \in ClockReads(file_path) :
      \E r \in {classify_file(<<>>, <<>>, DefaultDestinations, file_path, None, now)} :
            /\ base_destinations' = DefaultDestinations
            /\ base_destinations_arg' = None
            /\ seen_hashes' = r.seen_hashes
            /\ seen_filenames' = r.seen_filenames
            /\ calls' = Append(calls, <<file_path, None>>)
            /\ returned' = Append(returned, r.classification)
            /\ UNCHANGED <<plan_input, plan, listing, error, threads, dashboard_vars>>

ClassifySingleFile ==
    /\ Len(calls) < MaxSingleCalls
    /\ \E file_path \in SinglePaths : classify_single_file(file_path)

NextSingle == ClassifySingleFile

SpecSingle == Init /\ [][NextSingle]_vars

\* SpecRepeat: the tool called again, later, on a path it was given before
ReclassifySingleFile ==
    /\ Len(calls) >= 1
    /\ Len(calls) < MaxSingleCalls + MaxRepeats
    /\ \E i \in 1..Len(calls) : classify_single_file(calls[i][1])

NextRepeat == ClassifySingleFile \/ ReclassifySingleFile

SpecRepeat == Init /\ [][NextRepeat]_vars

\* SpecDir: the classify_files tool on a directory: a fresh FileClassifier(),
\* classify_directory, then generate_organization_plan of what it returned.
\* An exception of classify_directory ends the tool call with no result.
DirClockReads(entries) ==
    IF \E k \in 1..Len(entries) :
          StaticOf[Directory \o "/" \o entries[k].name].cat.subcategory = "photos"
    THEN Nows
    ELSE {CHOOSE now \in Nows : TRUE}

classify_files(entries) ==
    \E now \in DirClockReads(entries) :
      \E d \in {classify_directory(<<>>, <<>>, DefaultDestinations, Directory,
                                    entries, now)} :
            /\ listing' = Some(entries)
            /\ base_destinations' = DefaultDestinations
            /\ base_destinations_arg' = None
            /\ seen_hashes' = d.seen_hashes
            /\ seen_filenames' = d.seen_filenames
            /\ calls' = d.calls
            /\ error' = d.raised
            /\ UNCHANGED <<threads, dashboard_vars>>
            /\ IF d.raised # None
               THEN /\ returned' = <<>>
                    /\ plan_input' = <<>>
                    /\ plan' = None
               ELSE /\ returned' = d.classifications
                    /\ plan_input' = d.classifications
                    /\ plan' = Some(generate_organization_plan(d.classifications))

ClassifyFiles ==
    /\ listing = None
    /\ \E entries \in Listings : classify_files(entries)

NextDir == ClassifyFiles

SpecDir == Init /\ [][NextDir]_vars

\* SpecThreads: callers sharing one instance without a lock.  A thread
\* switch can fall between any two statements of classify_file, so the
\* tests and the updates of the two maps are separate steps.  `began` and
\* `result` place a call in the order of returns: the number of calls that
\* had returned when it was entered, and its own position among the returns.

\* the call is entered; is_duplicate = False, duplicate_of = None
ThreadCall(t, file_path, file_hash) ==
    /\ threads[t].pc = "idle"
    /\ threads' = [threads EXCEPT ![t] =
          [IdleThread EXCEPT !.pc = "hash_check",
                             !.file_path = file_path,
                             !.file_hash = file_hash,
                             !.began = Len(returned)]]
    /\ UNCHANGED <<seen_hashes, seen_filenames, calls, returned, plan_input, plan,
                   listing, error, base_destinations,
                   base_destinations_arg, dashboard_vars>>

\* if file_hash: if file_hash in self.seen_hashes:
HashCheck(t) ==
    /\ threads[t].pc = "hash_check"
    /\ threads' = [threads EXCEPT ![t].pc =
          IF ~Truthy(threads[t].file_hash) THEN "version_check"
          ELSE IF threads[t].file_hash[1] \in DOMAIN seen_hashes THEN "hash_read"
          ELSE "hash_write"]
    /\ UNCHANGED <<seen_hashes, seen_filenames, calls, returned, plan_input, plan,
                   listing, error, base_destinations,
                   base_destinations_arg, dashboard_vars>>

\* is_duplicate = True; duplicate_of = self.seen_hashes[file_hash]
HashRead(t) ==
    /\ threads[t].pc = "hash_read"
    /\ threads' = [threads EXCEPT
          ![t].pc = "version_check",
          ![t].is_duplicate = TRUE,
          ![t].duplicate_of = Some(seen_hashes[threads[t].file_hash[1]])]
    /\ UNCHANGED <<seen_hashes, seen_filenames, calls, returned, plan_input, plan,
                   listing, error, base_destinations,
                   base_destinations_arg, dashboard_vars>>

\* mutant: the fingerprint is not recorded
HashWrite_NotRecorded(t) ==
    /\ threads[t].pc = "hash_write"
    /\ threads' = [threads EXCEPT ![t].pc = "version_check"]
    /\ UNCHANGED <<seen_hashes, seen_filenames, calls, returned, plan_input, plan,
                   listing, error, base_destinations,
                   base_destinations_arg, dashboard_vars>>

\* self.seen_hashes[file_hash] = file_path
HashWrite(t) ==
    /\ threads[t].pc = "hash_write"
    /\ seen_hashes' = (threads[t].file_hash[1] :> threads[t].file_path) @@ seen_hashes
    /\ threads' = [threads EXCEPT ![t].pc = "version_check"]
    /\ UNCHANGED <<seen_filenames, calls, returned, plan_input, plan,
                   listing, error, base_destinations,
                   base_destinations_arg, dashboard_vars>>

\* version_match = ...; if version_match: if base_name in self.seen_filenames:
VersionCheck(t) ==
    /\ threads[t].pc = "version_check"
    /\ LET version_match == StaticOf[threads[t].file_path].version_match
       IN  threads' = [threads EXCEPT ![t].pc =
              IF version_match = None THEN "return"
              ELSE IF version_match[1] \in DOMAIN seen_filenames THEN "version_read"
              ELSE "version_append"]
    /\ UNCHANGED <<seen_hashes, seen_filenames, calls, returned, plan_input, plan,
                   listing, error, base_destinations,
                   base_destinations_arg, dashboard_vars>>

\* is_duplicate = True; duplicate_of = f"Version of: {...[base_name][0]}"
VersionRead(t) ==
    /\ threads[t].pc = "version_read"
    /\ LET base_name == StaticOf[threads[t].file_path].version_match[1]
       IN  threads' = [threads EXCEPT
              ![t].pc = "version_append",
              ![t].is_duplicate = TRUE,
              ![t].duplicate_of = Some("Version of: " \o seen_filenames[base_name][1])]
    /\ UNCHANGED <<seen_hashes, seen_filenames, calls, returned, plan_input, plan,
                   listing, error, base_destinations,
                   base_destinations_arg, dashboard_vars>>

\* self.seen_filenames[base_name].append(file_path)
VersionAppend(t) ==
    /\ threads[t].pc = "version_append"
    /\ LET base_name == StaticOf[threads[t].file_path].version_match[1]
           old       == Lookup(seen_filenames, base_name, <<>>)
       IN  seen_filenames' =
               (base_name :> Append(old, threads[t].file_path)) @@ seen_filenames
    /\ threads' = [threads EXCEPT ![t].pc = "return"]
    /\ UNCHANGED <<seen_hashes, calls, returned, plan_input, plan,
                   listing, error, base_destinations,
                   base_destinations_arg, dashboard_vars>>

\* action, destination and reason are computed from the locals and the
\* FileClassification is returned
ThreadReturn(t) ==
    /\ threads[t].pc = "return"
    /\ \E now \in ClockReads(threads[t].file_path) :
        LET me  == threads[t]
            st  == StaticOf[me.file_path]
            cat == st.cat
        IN  returned' = Append(returned,
               [path |-> me.file_path,
                filename |-> st.filename,
                extension |-> st.extension,
                category |-> cat.category,
                subcategory |-> cat.subcategory,
                confidence |-> cat.confidence,
                suggested_destination |->
                    _build_destination(base_destinations, cat.category,
                                       cat.subcategory, st.filename, now),
                action |-> _determine_action(cat.category, cat.subcategory,
                                             me.is_duplicate),
                reason |-> _build_reason(cat.category, cat.subcategory,
                                         me.is_duplicate, me.duplicate_of),
                is_duplicate |-> me.is_duplicate,
                duplicate_of |-> me.duplicate_of])
    /\ calls' = Append(calls, <<threads[t].file_path, threads[t].file_hash>>)
    /\ threads' = [threads EXCEPT ![t].pc = "done", ![t].result = Len(returned) + 1]
    /\ UNCHANGED <<seen_hashes, seen_filenames, plan_input, plan,
                   listing, error, base_destinations,
                   base_destinations_arg, dashboard_vars>>

ThreadStep ==
    \E t \in Threads :
        \/ \E file_path \in ThreadPaths, file_hash \in ThreadHashes :
              ThreadCall(t, file_path, file_hash)
        \/ HashCheck(t)
        \/ HashRead(t)
        \/ HashWrite(t)
        \/ VersionCheck(t)
        \/ VersionRead(t)
        \/ VersionAppend(t)
        \/ ThreadReturn(t)

NextThreads == ThreadStep

SpecThreads == Init /\ [][NextThreads]_vars

\* SpecPlan: the aggregator on any list of classifications
SampleClassification(path, category, action, is_duplicate, duplicate_of) ==
    [path |-> path,
     filename |-> PathName(path),
     extension |-> ExtensionOf(path),
     category |-> category,
     subcategory |-> "general",
     confidence |-> 90,
     suggested_destination |-> PathJoin("/sorted", PathName(path)),
     action |-> action,
     reason |-> _build_reason(category, "general", is_duplicate, duplicate_of),
     is_duplicate |-> is_duplicate,
     duplicate_of |-> duplicate_of]

SampleClassifications == {
    SampleClassification("/dl/a.pdf", "documents", "move", FALSE, None),
    SampleClassification("/dl/b.exe", "installers", "delete", FALSE, None),
    SampleClassification("/dl/c.pdf", "documents", "review", TRUE, Some("/dl/a.pdf")),
    SampleClassification("/dl/d.mp4", "videos", "keep", FALSE, None),
    SampleClassification("/dl/e.mp4", "videos", "keep", TRUE, None),
    SampleClassification("/dl/a.pdf", "documents", "move", TRUE, Some("Version of: /dl/a.pdf"))}

PlanAnyList ==
    \E classifications \in SeqsUpTo(SampleClassifications, MaxPlanLen) :
        GenerateOrganizationPlan(classifications)

NextPlan == PlanAnyList

SpecPlan == Init /\ [][NextPlan]_vars

\* mutant: the supplied mapping is merged over the defaults
InitDestinations_Merged(arg) ==
    IF arg = None THEN DefaultDestinations ELSE arg[1] @@ DefaultDestinations

\* FileClassifier.__init__: `base_destinations or {defaults}`; None and an
\* empty mapping are both falsy
InitDestinations(arg) ==
    IF arg = None \/ DOMAIN arg[1] = {} THEN DefaultDestinations ELSE arg[1]

MaxCustomCalls == 2  \* classify_file calls on an instance built with an argument

\* base_destinations arguments: none, an empty mapping, one that names
\* documents only, one that names images and a keyword category
SuppliedDestinations ==
    {None,
     Some([c \in {} |-> ""]),
     Some("documents" :> "/srv/docs"),
     Some("images" :> "/srv/img" @@ "finance" :> "/srv/finance")}

\* files of every keyword group, of plain table categories, pattern-named
\* files and two versions of one report
CustomPaths ==
    {"/dl/tax_invoice.pdf", "/dl/nda_contract.pdf", "/dl/cv_final.pdf",
     "/dl/cover_letter.pdf", "/dl/report_v1.pdf", "/dl/report_v2.pdf",
     "/dl/file.pdf", "/dl/file.png", "/dl/setup.exe", "/dl/file.xyz",
     "/dl/screenshot tax_invoice.pdf", "/dl/IMG_12file.png"}

\* FileClassifier(base_destinations): a new instance, before its first call
NewFileClassifier ==
    /\ calls = <<>>
    /\ base_destinations_arg = None
    /\ \E arg \in SuppliedDestinations :
          /\ base_destinations_arg' = arg
          /\ base_destinations' = InitDestinations(arg)
    /\ seen_hashes' = <<>>
    /\ seen_filenames' = <<>>
    /\ UNCHANGED <<calls, returned, plan_input, plan, listing, error, threads,
                   dashboard_vars>>

\* SpecCustom: an instance built with or without a base_destinations
\* argument, then a sequential pass over files
ClassifyCustom ==
    /\ Len(calls) < MaxCustomCalls
    /\ \E file_path \in CustomPaths \cup ArchivePaths :
       \E now \in ClockReads(file_path) :
          ClassifyFile(file_path, None, now)

NextCustom == NewFileClassifier \/ ClassifyCustom

SpecCustom == Init /\ [][NextCustom]_vars

-----------------------------------------------------------------------------
(* TerminalTools (src/tools/terminal.py)                                   *)

MaxToolCalls == 2    \* TerminalTools methods called on one instance

Home == "/home/u"
LogPath == "logs/actions.log"
BackupDir == "~/.storagepilot_backup"
BackupStamp == "20240115_093000"   \* datetime.now().strftime('%Y%m%d_%H%M%S')

\* os.path.expanduser: a leading ~ component becomes the home directory
expanduser(path) ==
    IF Len(path) >= 1 /\ Char(path, 1) = "~" /\ (Len(path) = 1 \/ Char(path, 2) = "/")
    THEN Home \o SubSeq(path, 2, Len(path))
    ELSE path

\* os.path.dirname / os.path.basename
dirname(path) ==
    LET i == RFind(path, "/")
    IN  IF i = 0 THEN "" ELSE IF i = 1 THEN "/" ELSE SubSeq(path, 1, i - 1)
basename(path) == SubSeq(path, RFind(path, "/") + 1, Len(path))

Quoted(path) == "\"" \o path \o "\""

\* what a method did for real
Subprocess(command) == [op |-> "subprocess", target |-> command]
Makedirs(path)      == [op |-> "makedirs", target |-> path]
Copy2(path)         == [op |-> "copy2", target |-> path]
WriteFile(path)     == [op |-> "write", target |-> path]
\* _write_log: one line appended to the instance's own log file
WriteLog            == [op |-> "log", target |-> LogPath]

ActionLog(action_type, source, destination, success, dry_run, reversible) ==
    [action_type |-> action_type, source |-> source, destination |-> destination,
     success |-> success, dry_run |-> dry_run, reversible |-> reversible]

\* run_command with the dry-run test dropped
run_command_IgnoresDryRun(dry_run, command, returncode) ==
    [returncode |-> returncode, dry_run |-> FALSE, effects |-> <<Subprocess(command)>>]

\* run_command: in dry-run mode returns at once with returncode 0; otherwise
\* subprocess.run starts the command, whose return code is the
\* environment's (a timeout or an exception gives -1)
run_command(dry_run, command, returncode) ==
    IF dry_run
    THEN [returncode |-> 0, dry_run |-> TRUE, effects |-> <<>>]
    ELSE [returncode |-> returncode, dry_run |-> FALSE,
          effects |-> <<Subprocess(command)>>]

\* Each method below gives: whether it raised, the ActionLog it appended to
\* action_history (None when it appends none) and what it did for real.

move_file(dry_run, source, destination, returncode) ==
    LET src    == expanduser(source)
        dst    == expanduser(destination)
        made   == IF ~dry_run THEN <<Makedirs(dirname(dst))>> ELSE <<>>
        result == run_command(dry_run, "mv " \o Quoted(src) \o " " \o Quoted(dst),
                              returncode)
    IN  [raised |-> FALSE,
         log |-> Some(ActionLog("move", src, Some(dst), result.returncode = 0,
                                dry_run, TRUE)),
         effects |-> made \o result.effects \o <<WriteLog>>]

\* delete_file: `copied` tells whether shutil.copy2 of the backup succeeds
\* (it raises for a directory or an unreadable path)
delete_file(dry_run, path, backup, returncode, copied) ==
    LET p           == expanduser(path)
        backup_dir  == expanduser(BackupDir)
        backup_path == PathJoin(backup_dir, BackupStamp \o "_" \o basename(p))
        result      == run_command(dry_run, "rm -rf " \o Quoted(p), returncode)
    IN  IF backup /\ ~dry_run
        THEN IF ~copied
             THEN [raised |-> TRUE, log |-> None,
                   effects |-> <<Makedirs(backup_dir)>>]
             ELSE [raised |-> FALSE,
                   log |-> Some(ActionLog("delete", p, Some(backup_path),
                                          result.returncode = 0, dry_run, TRUE)),
                   effects |-> <<Makedirs(backup_dir), Copy2(backup_path)>>
                               \o result.effects \o <<WriteLog>>]
        ELSE [raised |-> FALSE,
              log |-> Some(ActionLog("delete", p, None, result.returncode = 0,
                                     dry_run, FALSE)),
              effects |-> result.effects \o <<WriteLog>>]

create_directory(dry_run, path, returncode) ==
    LET p      == expanduser(path)
        result == run_command(dry_run, "mkdir -p " \o Quoted(p), returncode)
    IN  [raised |-> FALSE,
         log |-> Some(ActionLog("mkdir", p, None, result.returncode = 0,
                                dry_run, TRUE)),
         effects |-> result.effects \o <<WriteLog>>]

DockerPruneCommands ==
    <<"docker image prune -f", "docker container prune -f",
      "docker volume prune -f", "docker builder prune -f">>

clean_docker(dry_run, prune_all, returncode) ==
    LET commands == IF prune_all
                    THEN Append(DockerPruneCommands, "docker system prune -af")
                    ELSE DockerPruneCommands
        EffectsFrom[k \in 0..Len(commands)] ==
            IF k = 0 THEN <<>>
            ELSE EffectsFrom[k - 1]
                 \o run_command(dry_run, commands[k], returncode).effects
    IN  [raised |-> FALSE, log |-> None, effects |-> EffectsFrom[Len(commands)]]

\* create_stub_file appends to action_history but does not call _write_log
create_stub_file(dry_run, original_path, moved_to) ==
    LET stub_path == original_path \o ".stub"
    IN  [raised |-> FALSE,
         log |-> Some(ActionLog("create_stub", original_path, Some(stub_path),
                                TRUE, dry_run, TRUE)),
         effects |-> IF ~dry_run THEN <<WriteFile(stub_path)>> ELSE <<>>]

\* TerminalTools(dry_run): the log directory is created, the history is empty
NewTerminalTools(dry_run) ==
    [dry_run |-> dry_run, action_history |-> <<>>]
InitEffects == <<[op |-> "log", target |-> dirname(LogPath)]>>

\* inputs of the tool calls
TargetPaths == {"~/proj/node_modules", "/data/build"}
Destinations == {"~/Archive/node_modules"}
Commands == {"du -sh ~", "rm -rf /data/build"}
ReturnCodes == {0, 1}

Construct ==
    /\ tools = None
    /\ \E dry_run \in BOOLEAN :
          /\ tools' = Some(NewTerminalTools(dry_run))
          /\ effects' = effects \o InitEffects
    /\ UNCHANGED <<tool_calls, config_file, poller, broadcast, websockets, SCAN_STATES,
                   executing, response, classifier_vars>>

\* a method called on the instance: the call is recorded, its ActionLog is
\* appended to action_history and its real effects follow the earlier ones
Called(method, args, r) ==
    /\ tools # None
    /\ Len(tool_calls) < MaxToolCalls
    /\ tool_calls' = Append(tool_calls, [method |-> method, args |-> args,
                                         raised |-> r.raised])
    /\ effects' = effects \o r.effects
    /\ tools' = IF r.log = None THEN tools
                ELSE Some([tools[1] EXCEPT !.action_history = Append(@, r.log[1])])
    /\ UNCHANGED <<config_file, poller, broadcast, websockets, SCAN_STATES, executing,
                   response, classifier_vars>>

CallRunCommand ==
    \E command \in Commands, returncode \in ReturnCodes :
        /\ tools # None
        /\ Called("run_command", <<command>>,
                  [raised |-> FALSE, log |-> None,
                   effects |-> run_command(tools[1].dry_run, command, returncode).effects])

CallMoveFile ==
    \E source \in TargetPaths, destination \in Destinations, returncode \in ReturnCodes :
        /\ tools # None
        /\ Called("move_file", <<source, destination>>,
                  move_file(tools[1].dry_run, source, destination, returncode))

CallDeleteFile ==
    \E path \in TargetPaths, backup \in BOOLEAN, returncode \in ReturnCodes,
       copied \in BOOLEAN :
        /\ tools # None
        /\ Called("delete_file", <<path, backup>>,
                  delete_file(tools[1].dry_run, path, backup, returncode, copied))

CallCreateDirectory ==
    \E path \in Destinations, returncode \in ReturnCodes :
        /\ tools # None
        /\ Called("create_directory", <<path>>,
                  create_directory(tools[1].dry_run, path, returncode))

CallCleanDocker ==
    \E prune_all \in BOOLEAN, returncode \in ReturnCodes :
        /\ tools # None
        /\ Called("clean_docker", <<prune_all>>,
                  clean_docker(tools[1].dry_run, prune_all, returncode))

CallCreateStubFile ==
    \E original_path \in TargetPaths, moved_to \in Destinations :
        /\ tools # None
        /\ Called("create_stub_file", <<original_path, moved_to>>,
                  create_stub_file(tools[1].dry_run, original_path, moved_to))

NextTools ==
    \/ Construct
    \/ CallRunCommand
    \/ CallMoveFile
    \/ CallDeleteFile
    \/ CallCreateDirectory
    \/ CallCleanDocker
    \/ CallCreateStubFile

SpecTools == Init /\ [][NextTools]_vars

-----------------------------------------------------------------------------
(* Dashboard API (src/ui/dashboard.py): configuration                      *)

\* Python values held in the configuration: a type tag and the value as
\* a list of strings (one string for a scalar, "true"/"false" for a bool)
Str(s)   == [t |-> "str", v |-> <<s>>]
Bool(b)  == [t |-> "bool", v |-> <<IF b THEN "true" ELSE "false">>]
IntVal(s) == [t |-> "int", v |-> <<s>>]
NullVal  == [t |-> "null", v |-> <<"">>]
List(items) == [t |-> "list", v |-> items]

\* bool(value)
Truth(val) ==
    CASE val.t = "bool" -> val.v[1] = "true"
      [] val.t = "str"  -> val.v[1] # ""
      [] val.t = "int"  -> \E i \in 1..Len(val.v[1]) : Char(val.v[1], i) \notin {"0", "-", "+"}
      [] val.t = "null" -> FALSE
      [] val.t = "list" -> val.v # <<>>

\* YAML as PyYAML reads and writes it.  A document is a mapping of
\* sections to mappings of keys to nodes; a node is a scalar token or a block
\* sequence of scalar tokens.
YamlTrue  == {"true", "True", "TRUE", "yes", "Yes", "YES", "on", "On", "ON"}
YamlFalse == {"false", "False", "FALSE", "no", "No", "NO", "off", "Off", "OFF"}
YamlNull  == {"", "~", "null", "Null", "NULL"}
YamlIndicators == {"'", "#", "&", "*", "!", "|", ">", "%", "@", "[", "]", "{", "}", ","}

IsIntText(s) ==
    LET body == IF Len(s) >= 1 /\ Char(s, 1) \in {"-", "+"}
                THEN SubSeq(s, 2, Len(s)) ELSE s
    IN  Len(body) >= 1 /\ \A i \in 1..Len(body) : IsDigit(Char(body, i))

IsQuoted(token) ==
    Len(token) >= 2 /\ Char(token, 1) = "'" /\ Char(token, Len(token)) = "'"

\* a single-quoted scalar doubles the quotes inside it
RECURSIVE DoubleQuotes(_)
DoubleQuotes(s) ==
    IF s = "" THEN ""
    ELSE (IF Char(s, 1) = "'" THEN "''" ELSE Char(s, 1))
         \o DoubleQuotes(SubSeq(s, 2, Len(s)))

RECURSIVE SingleQuotes(_)
SingleQuotes(s) ==
    IF s = "" THEN ""
    ELSE IF Len(s) >= 2 /\ Char(s, 1) = "'" /\ Char(s, 2) = "'"
    THEN "'" \o SingleQuotes(SubSeq(s, 3, Len(s)))
    ELSE Char(s, 1) \o SingleQuotes(SubSeq(s, 2, Len(s)))

\* yaml.safe_load of one scalar token: the implicit resolver
LoadScalar(token) ==
    IF IsQuoted(token) THEN Str(SingleQuotes(SubSeq(token, 2, Len(token) - 1)))
    ELSE IF token \in YamlTrue THEN Bool(TRUE)
    ELSE IF token \in YamlFalse THEN Bool(FALSE)
    ELSE IF token \in YamlNull THEN NullVal
    ELSE IF IsIntText(token) THEN IntVal(token)
    ELSE Str(token)

\* the representer with every string written plain
DumpScalar_AlwaysPlain(val) ==
    CASE val.t = "null" -> "null"
      [] OTHER -> val.v[1]

\* yaml.safe_dump of one scalar: a string is written plain only when the
\* plain token would be read back as a string
DumpScalar(val) ==
    CASE val.t = "bool" -> val.v[1]
      [] val.t = "int"  -> val.v[1]
      [] val.t = "null" -> "null"
      [] val.t = "str"  ->
           LET s == val.v[1]
           IN  IF \/ LoadScalar(s).t # "str"
                  \/ IsQuoted(s)
                  \/ (Len(s) >= 1 /\ Char(s, 1) \in YamlIndicators \cup {" "})
                  \/ (Len(s) >= 1 /\ Char(s, Len(s)) = " ")
               THEN "'" \o DoubleQuotes(s) \o "'"
               ELSE s

ScalarNode(token) == [seq |-> FALSE, items |-> <<token>>]
SeqNode(tokens)   == [seq |-> TRUE, items |-> tokens]

LoadNode(node) ==
    IF node.seq
    THEN List([k \in 1..Len(node.items) |-> LoadScalar(node.items[k]).v[1]])
    ELSE LoadScalar(node.items[1])

DumpNode(val) ==
    IF val.t = "list"
    THEN SeqNode([k \in 1..Len(val.v) |-> DumpScalar(Str(val.v[k]))])
    ELSE ScalarNode(DumpScalar(val))

yaml_safe_load(doc) ==
    [s \in DOMAIN doc |-> [k \in DOMAIN doc[s] |-> LoadNode(doc[s][k])]]
yaml_safe_dump(cfg) ==
    [s \in DOMAIN cfg |-> [k \in DOMAIN cfg[s] |-> DumpNode(cfg[s][k])]]

DEFAULT_CONFIG ==
    [scan_paths |-> [primary   |-> List(<<"~/Downloads", "~/Desktop">>),
                     secondary |-> List(<<"~/Documents">>),
                     workspace |-> List(<<"~/workspace", "~/projects">>)],
     safety |-> [dry_run |-> Bool(TRUE),
                 require_approval |-> Bool(TRUE),
                 backup_before_delete |-> Bool(TRUE)],
     llm |-> [provider |-> Str("ollama"),
              model |-> Str("qwen2.5:0.5b"),
              base_url |-> Str("http://127.0.0.1:11434/v1")]]

\* _save_config: the file now holds the dump of cfg
_save_config(cfg) == Some(yaml_safe_dump(cfg))

\* _load_config: a missing file is created with the defaults; otherwise the
\* sections of the file are laid over the defaults, key by key.  Gives the
\* configuration and the file as the call leaves it.
_load_config(file) ==
    IF file = None
    THEN [cfg |-> DEFAULT_CONFIG, file |-> _save_config(DEFAULT_CONFIG)]
    ELSE LET cfg == yaml_safe_load(file[1])
             merged ==
               [s \in DOMAIN DEFAULT_CONFIG \cup DOMAIN cfg |->
                  IF s \in DOMAIN cfg /\ s \in DOMAIN DEFAULT_CONFIG
                  THEN cfg[s] @@ DEFAULT_CONFIG[s]
                  ELSE IF s \in DOMAIN cfg THEN cfg[s] ELSE DEFAULT_CONFIG[s]]
         IN  [cfg |-> merged, file |-> file]

\* dict.get(key, default)
Get(mapping, key, default) ==
    IF key \in DOMAIN mapping THEN mapping[key] ELSE default

\* ", ".join(items)
RECURSIVE Join(_)
Join(items) ==
    IF items = <<>> THEN ""
    ELSE IF Len(items) = 1 THEN items[1]
    ELSE items[1] \o ", " \o Join(Tail(items))

\* str.strip() of blanks
RECURSIVE Strip(_)
Strip(s) ==
    IF s # "" /\ Char(s, 1) = " " THEN Strip(SubSeq(s, 2, Len(s)))
    ELSE IF s # "" /\ Char(s, Len(s)) = " " THEN Strip(SubSeq(s, 1, Len(s) - 1))
    ELSE s

\* [p.strip() for p in s.split(",") if p.strip()]
RECURSIVE SplitPaths(_)
SplitPaths(s) ==
    LET commas == {i \in 1..Len(s) : Char(s, i) = ","}
    IN  IF commas = {}
        THEN IF Strip(s) = "" THEN <<>> ELSE <<Strip(s)>>
        ELSE LET i    == Min(commas)
                 head == Strip(SubSeq(s, 1, i - 1))
                 rest == SplitPaths(SubSeq(s, i + 1, Len(s)))
             IN  IF head = "" THEN rest ELSE <<head>> \o rest

Providers == {"ollama", "openai", "matrixllm"}

\* UiConfig(...) as get_config builds it from a loaded configuration; the
\* model validates provider against its literals and the three llm fields
\* as strings
UiConfigOf(cfg) ==
    LET llm        == Get(cfg, "llm", <<>>)
        scan_paths == Get(cfg, "scan_paths", <<>>)
        safety     == Get(cfg, "safety", <<>>)
        provider   == Get(llm, "provider", Str("ollama"))
        model      == Get(llm, "model", Str("qwen2.5:0.5b"))
        baseUrl    == Get(llm, "base_url", Str("http://127.0.0.1:11434/v1"))
    IN  IF \/ provider.t # "str" \/ model.t # "str" \/ baseUrl.t # "str"
           \/ provider.v[1] \notin Providers
        THEN None
        ELSE Some([provider |-> provider.v[1],
                   model |-> model.v[1],
                   baseUrl |-> baseUrl.v[1],
                   scanPrimary |-> Join(Get(scan_paths, "primary", List(<<>>)).v),
                   scanWorkspace |-> Join(Get(scan_paths, "workspace", List(<<>>)).v),
                   dryRun |-> Truth(Get(safety, "dry_run", Bool(TRUE))),
                   approval |-> Truth(Get(safety, "require_approval", Bool(TRUE))),
                   backup |-> Truth(Get(safety, "backup_before_delete", Bool(TRUE)))])

\* the configuration put_config saves for the UiConfig it was sent
PutConfigOf(cfg, new_cfg) ==
    LET llm == [provider |-> Str(new_cfg.provider),
                model |-> Str(new_cfg.model),
                base_url |-> Str(new_cfg.baseUrl)] @@ Get(cfg, "llm", <<>>)
        scan_paths == [primary |-> List(SplitPaths(new_cfg.scanPrimary)),
                       workspace |-> List(SplitPaths(new_cfg.scanWorkspace))]
                      @@ Get(cfg, "scan_paths", <<>>)
        safety == [dry_run |-> Bool(new_cfg.dryRun),
                   require_approval |-> Bool(new_cfg.approval),
                   backup_before_delete |-> Bool(new_cfg.backup)]
                  @@ Get(cfg, "safety", <<>>)
    IN  [llm |-> llm, scan_paths |-> scan_paths, safety |-> safety] @@ cfg

\* the UiConfig bodies clients send
UiConfigs ==
    [provider : {"ollama", "openai"},
     model : {"qwen2.5:0.5b", "true", "123"},
     baseUrl : {"http://127.0.0.1:11434/v1", "'quoted'"},
     scanPrimary : {" ~/dl ,, ~/Desktop"},
     scanWorkspace : {"~/workspace, ~/projects"},
     dryRun : BOOLEAN,
     approval : BOOLEAN,
     backup : BOOLEAN]

\* config.yaml as an operator may have written it by hand
ConfigFiles ==
    { <<>>,
      [safety |-> [dry_run |-> ScalarNode("false")]],
      [safety |-> [dry_run |-> ScalarNode("no"),
                   backup_before_delete |-> ScalarNode("false")]],
      [safety |-> [dry_run |-> ScalarNode("")]],
      [scan_paths |-> [secondary |-> SeqNode(<<"/mnt/archive", "'123'">>)],
       llm |-> [model |-> ScalarNode("123"), api_key |-> ScalarNode("sk-1")]],
      [ui |-> [theme |-> ScalarNode("dark")],
       llm |-> [provider |-> ScalarNode("azure")]] }

\* the operator writes config.yaml outside the API
EditConfig ==
    \E doc \in ConfigFiles :
        /\ config_file' = Some(doc)
        /\ response' = None
        /\ UNCHANGED <<SCAN_STATES, executing, tool_calls, effects, tools,
                       poller, broadcast, websockets, classifier_vars>>

\* GET /api/config
get_config ==
    LET loaded == _load_config(config_file)
        ui     == UiConfigOf(loaded.cfg)
    IN  /\ config_file' = loaded.file
        /\ response' = IF ui = None
                       THEN Some([endpoint |-> "get_config", code |-> 500])
                       ELSE Some([endpoint |-> "get_config", code |-> 200,
                                  config |-> ui[1]])
        /\ UNCHANGED <<SCAN_STATES, executing, tool_calls, effects, tools,
                       poller, broadcast, websockets, classifier_vars>>

\* PUT /api/config
put_config(new_cfg) ==
    LET loaded == _load_config(config_file)
    IN  /\ config_file' = _save_config(PutConfigOf(loaded.cfg, new_cfg))
        /\ response' = Some([endpoint |-> "put_config", code |-> 200,
                             sent |-> new_cfg])
        /\ UNCHANGED <<SCAN_STATES, executing, tool_calls, effects, tools,
                       poller, broadcast, websockets, classifier_vars>>

PutConfig == \E new_cfg \in UiConfigs : put_config(new_cfg)

NextConfig == EditConfig \/ get_config \/ PutConfig

SpecConfig == Init /\ [][NextConfig]_vars

-----------------------------------------------------------------------------
(* Dashboard API (src/ui/dashboard.py): scans                              *)

MaxScans == 1        \* scans started in one behaviour

\* scan ids asked for by clients: the ids handed out and one unknown id
ScanIds == 1..MaxScans
UnknownScanId == 0
RequestIds == ScanIds \cup {UnknownScanId}

\* the progress values of the log() calls of _run_scan before completion
ScanProgress == <<5, 15, 30, 45, 65, 90>>

\* the messages of those log() calls, the warning of the classification
\* except-block and the message of the last log() call
ScanMessages ==
    <<"Initializing deep scan protocols...",
      "Analyzing storage health...",
      "Inspecting Docker registry...",
      "Detecting developer artifacts...",
      "Scanning Downloads for file categories...",
      "Heuristic analysis complete. Waste identified.">>
ClassifyWarning == "Warning: Could not classify downloads: [Errno 13] Permission denied"
ScanComplete == "Scan complete. Ready for review."

\* ScanState(scan_id, status="SCANNING", progress=0, logs=[]); `task` is
\* the position of the _run_scan coroutine of the scan: the number of
\* log() calls made, then the three assignments of its completion, the
\* two broadcasts after them and the last log() call; `warned` is set once
\* the classification except-block has run and `raised` once the coroutine
\* has ended with an exception
NewScanState ==
    [status |-> "SCANNING", progress |-> 0, logs |-> <<>>, result |-> None,
     ws_clients |-> <<>>, task |-> 0, warned |-> FALSE, raised |-> FALSE]

\* TerminalTools.find_files with file_type="d" and max_depth=4: the lines of
\* the command's stdout, each given to _get_file_info; in dry-run mode
\* run_command returns the line "[DRY RUN] Would execute: <cmd>", which
\* os.stat does not find
find_files(dry_run, path, pattern, found) ==
    LET cmd    == "find " \o Quoted(expanduser(path)) \o " -maxdepth 4 -type d -name "
                  \o Quoted(pattern) \o " 2>/dev/null"
        stdout == IF dry_run THEN <<"[DRY RUN] Would execute: " \o cmd>> ELSE found
    IN  [k \in 1..Len(stdout) |->
            [path |-> stdout[k], name |-> basename(stdout[k]),
             error |-> stdout[k] \notin Range(found)]]

\* the dev_debt list _run_scan builds from the matches: entries with an
\* error are skipped, ids count from 1
DevDebtItems(matches) ==
    LET kept == SelectSeq(matches, LAMBDA m : ~m.error)
    IN  [k \in 1..Len(kept) |-> [id |-> k, name |-> kept[k].name, path |-> kept[k].path]]

\* what a heavy folder lookup of _run_scan gives: its TerminalTools is built
\* with dry_run=True
ScanDevDebt ==
    DevDebtItems(find_files(TRUE, "~/workspace", "node_modules",
                            <<"/home/u/workspace/app/node_modules">>))

\* ScanResult(status="REVIEW", dev_debt=dev_debt, ...)
NewScanResult == [status |-> "REVIEW", dev_debt |-> ScanDevDebt]

\* POST /api/scan/start: a fresh uuid, a new ScanState, the task is created
start_scan ==
    /\ Cardinality(DOMAIN SCAN_STATES) < MaxScans
    /\ LET scan_id == Cardinality(DOMAIN SCAN_STATES) + 1
       IN  /\ SCAN_STATES' = (scan_id :> NewScanState) @@ SCAN_STATES
           /\ response' = Some([endpoint |-> "start_scan", code |-> 200,
                                scan_id |-> scan_id])
    /\ UNCHANGED <<executing, classifier_vars, service_vars>>

\* a coroutine that goes on after an exception
Runnable_AfterRaise(scan_id) ==
    /\ scan_id \in DOMAIN SCAN_STATES
    /\ ~(broadcast.active /\ broadcast.scan_id = scan_id)

\* the coroutine of the scan can take a step: it has not ended with an
\* exception and is not suspended in a send of _broadcast
Runnable(scan_id) ==
    /\ scan_id \in DOMAIN SCAN_STATES
    /\ ~SCAN_STATES[scan_id].raised
    /\ ~(broadcast.active /\ broadcast.scan_id = scan_id)

\* _broadcast(scan, event) for each of `events` in turn.  With no client in
\* scan.ws_clients the for-loops run over nothing; otherwise the first
\* send of the first event is awaited.
StartBroadcast(scan_id, events) ==
    IF SCAN_STATES[scan_id].ws_clients = <<>>
    THEN broadcast
    ELSE [active |-> TRUE, scan_id |-> scan_id, event |-> Head(events),
          queue |-> Tail(events), i |-> 1,
          current |-> SCAN_STATES[scan_id].ws_clients[1], dead |-> <<>>,
          start |-> Range(SCAN_STATES[scan_id].ws_clients), delivered |-> {},
          last |-> broadcast.last]

\* a coroutine with clients to send to starts sending only when no other
\* _broadcast call is suspended
CanBroadcast(scan_id) ==
    SCAN_STATES[scan_id].ws_clients # <<>> => ~broadcast.active

\* log(msg, progress) of _run_scan: the line is appended, the progress is
\* stored when one is given, both are broadcast
Log(scan_id, msg, progress) ==
    /\ SCAN_STATES' = [SCAN_STATES EXCEPT
          ![scan_id].logs = Append(@, msg),
          ![scan_id].progress = IF progress = None THEN @ ELSE progress[1],
          ![scan_id].task = IF progress = None THEN @ ELSE @ + 1,
          ![scan_id].warned = (progress = None) \/ @]
    /\ broadcast' = StartBroadcast(scan_id, IF progress = None THEN <<"log">>
                                            ELSE <<"log", "progress">>)

\* _run_scan: await log(msg, progress), one call per phase of the scan
RunScanLog(scan_id) ==
    /\ Runnable(scan_id)
    /\ CanBroadcast(scan_id)
    /\ SCAN_STATES[scan_id].task \in 0..(Len(ScanProgress) - 1)
    /\ Log(scan_id, ScanMessages[SCAN_STATES[scan_id].task + 1],
           Some(ScanProgress[SCAN_STATES[scan_id].task + 1]))
    /\ UNCHANGED <<executing, response, classifier_vars, config_file, tool_calls,
                   effects, tools, poller, websockets>>

\* _run_scan: classify_directory raised inside the try-block; the except
\* block logs a warning with no progress and the scan goes on
RunScanClassifyFails(scan_id) ==
    /\ Runnable(scan_id)
    /\ CanBroadcast(scan_id)
    /\ SCAN_STATES[scan_id].task = Len(ScanProgress) - 1
    /\ ~SCAN_STATES[scan_id].warned
    /\ Log(scan_id, ClassifyWarning, None)
    /\ UNCHANGED <<executing, response, classifier_vars, config_file, tool_calls,
                   effects, tools, poller, websockets>>

\* _run_scan: a step outside the classification try-block raises, at any
\* point before the completion assignments (_load_config, TerminalTools(),
\* get_system_overview, get_docker_usage, find_files, FileClassifier(),
\* the size parsing); the task ends, nothing handles the exception
RunScanRaises(scan_id) ==
    /\ Runnable(scan_id)
    /\ SCAN_STATES[scan_id].task \in 0..Len(ScanProgress)
    /\ SCAN_STATES' = [SCAN_STATES EXCEPT ![scan_id].raised = TRUE]
    /\ UNCHANGED <<executing, response, classifier_vars, service_vars>>

\* _run_scan: scan.status = "REVIEW"
RunScanSetStatus(scan_id) ==
    /\ Runnable(scan_id)
    /\ SCAN_STATES[scan_id].task = Len(ScanProgress)
    /\ SCAN_STATES' = [SCAN_STATES EXCEPT ![scan_id].status = "REVIEW",
                                          ![scan_id].task = @ + 1]
    /\ UNCHANGED <<executing, response, classifier_vars, service_vars>>

\* _run_scan: scan.progress = 100
RunScanSetProgress(scan_id) ==
    /\ Runnable(scan_id)
    /\ SCAN_STATES[scan_id].task = Len(ScanProgress) + 1
    /\ SCAN_STATES' = [SCAN_STATES EXCEPT ![scan_id].progress = 100,
                                          ![scan_id].task = @ + 1]
    /\ UNCHANGED <<executing, response, classifier_vars, service_vars>>

\* _run_scan: scan.result = result
RunScanSetResult(scan_id) ==
    /\ Runnable(scan_id)
    /\ SCAN_STATES[scan_id].task = Len(ScanProgress) + 2
    /\ SCAN_STATES' = [SCAN_STATES EXCEPT ![scan_id].result = Some(NewScanResult),
                                          ![scan_id].task = @ + 1]
    /\ UNCHANGED <<executing, response, classifier_vars, service_vars>>

\* _run_scan: the broadcasts of the status REVIEW and of the progress 100
RunScanAnnounce(scan_id) ==
    /\ Runnable(scan_id)
    /\ CanBroadcast(scan_id)
    /\ SCAN_STATES[scan_id].task = Len(ScanProgress) + 3
    /\ SCAN_STATES' = [SCAN_STATES EXCEPT ![scan_id].task = @ + 1]
    /\ broadcast' = StartBroadcast(scan_id, <<"status", "progress">>)
    /\ UNCHANGED <<executing, response, classifier_vars, config_file, tool_calls,
                   effects, tools, poller, websockets>>

\* _run_scan: await log("Scan complete. Ready for review.", 100)
RunScanFinish(scan_id) ==
    /\ Runnable(scan_id)
    /\ CanBroadcast(scan_id)
    /\ SCAN_STATES[scan_id].task = Len(ScanProgress) + 4
    /\ Log(scan_id, ScanComplete, Some(100))
    /\ UNCHANGED <<executing, response, classifier_vars, config_file, tool_calls,
                   effects, tools, poller, websockets>>

NotFound(endpoint, scan_id) ==
    Some([endpoint |-> endpoint, code |-> 404, scan_id |-> scan_id])

\* GET /api/scan/{scan_id}: the result, or a partial SCANNING view
get_scan(scan_id) ==
    /\ response' =
          IF scan_id \notin DOMAIN SCAN_STATES THEN NotFound("get_scan", scan_id)
          ELSE Some([endpoint |-> "get_scan", code |-> 200, scan_id |-> scan_id,
                     status |-> IF SCAN_STATES[scan_id].result = None THEN "SCANNING"
                                ELSE SCAN_STATES[scan_id].result[1].status])
    /\ UNCHANGED <<SCAN_STATES, executing, classifier_vars, service_vars>>

\* scan.logs[offset:] for an offset >= 0
LogsFrom(logs, offset) == SubSeq(logs, offset + 1, Len(logs))

\* GET /api/scan/{scan_id}/logs with the default offset 0, when no step of
\* _run_scan falls between the reads of the handler
get_scan_logs(scan_id) ==
    /\ response' =
          IF scan_id \notin DOMAIN SCAN_STATES THEN NotFound("get_scan_logs", scan_id)
          ELSE Some([endpoint |-> "get_scan_logs", code |-> 200, scan_id |-> scan_id,
                     status |-> SCAN_STATES[scan_id].status,
                     progress |-> SCAN_STATES[scan_id].progress,
                     logs |-> LogsFrom(SCAN_STATES[scan_id].logs, 0),
                     total_logs |-> Len(SCAN_STATES[scan_id].logs)])
    /\ UNCHANGED <<SCAN_STATES, executing, classifier_vars, service_vars>>

\* `if not scan or not scan.result`
Finished(scan_id) ==
    scan_id \in DOMAIN SCAN_STATES /\ SCAN_STATES[scan_id].result # None

\* POST /api/clean/plan: reads the result, changes nothing
get_clean_plan(scan_id) ==
    /\ response' =
          IF ~Finished(scan_id) THEN NotFound("get_clean_plan", scan_id)
          ELSE Some([endpoint |-> "get_clean_plan", code |-> 200, scan_id |-> scan_id])
    /\ UNCHANGED <<SCAN_STATES, executing, classifier_vars, service_vars>>

\* a refusal that registers the id it was asked for
ExecuteCleanRefused_Registers(scan_id) ==
    /\ ~Finished(scan_id)
    /\ response' = NotFound("execute_clean", scan_id)
    /\ SCAN_STATES' = IF scan_id \in DOMAIN SCAN_STATES THEN SCAN_STATES
                      ELSE (scan_id :> NewScanState) @@ SCAN_STATES
    /\ UNCHANGED <<executing, classifier_vars, service_vars>>

\* POST /api/clean/execute refused: 404 when the scan has no result
ExecuteCleanRefused(scan_id) ==
    /\ ~Finished(scan_id)
    /\ response' = NotFound("execute_clean", scan_id)
    /\ UNCHANGED <<SCAN_STATES, executing, classifier_vars, service_vars>>

\* the ExecuteCleanRequest bodies clients send
SelectedIds == {<<>>, <<1>>, <<2, 1>>}

\* execute_clean, the loop over req.selected_dev_debt_ids: an id with no
\* item in the scan's dev_debt is skipped, the others are deleted through
\* tools.delete_file; gives the calls made, their ActionLogs and real
\* effects, the actions reported, and whether a call raised
RECURSIVE DeleteSelected(_, _, _, _, _, _)
DeleteSelected(dry_run, backup, dev_debt, ids, returncode, copied) ==
    IF ids = <<>>
    THEN [raised |-> FALSE, calls |-> <<>>, logs |-> <<>>, effects |-> <<>>,
          actions |-> <<>>]
    ELSE LET rest == DeleteSelected(dry_run, backup, dev_debt, Tail(ids),
                                    returncode, copied)
             hits == {k \in 1..Len(dev_debt) : dev_debt[k].id = Head(ids)}
         IN  IF hits = {} THEN rest
             ELSE LET item == dev_debt[Min(hits)]
                      r    == delete_file(dry_run, item.path, backup, returncode, copied)
                      call == [method |-> "delete_file", args |-> <<item.path, backup>>,
                               raised |-> r.raised]
                  IN  IF r.raised
                      THEN [raised |-> TRUE, calls |-> <<call>>, logs |-> <<>>,
                            effects |-> r.effects, actions |-> <<>>]
                      ELSE [raised |-> rest.raised,
                            calls |-> <<call>> \o rest.calls,
                            logs |-> <<r.log[1]>> \o rest.logs,
                            effects |-> r.effects \o rest.effects,
                            actions |-> <<[action |-> "delete_dev_debt",
                                           target |-> item.path,
                                           dry_run |-> dry_run]>> \o rest.actions]

\* execute_clean with the dry_run of the configuration ignored
DryRunOf_AlwaysLive(safety) == FALSE

\* bool(safety.get("dry_run", True))
DryRunOf(safety) == Truth(Get(safety, "dry_run", Bool(TRUE)))

\* POST /api/clean/execute up to scan.status = "SUCCESS": the configuration
\* is loaded, a TerminalTools is built in its mode, the selected items are
\* deleted and docker is pruned through it.  A raising delete_file ends
\* the request with a 500 before the status is touched.
ExecuteCleanMark(scan_id, selected_dev_debt_ids, docker_prune) ==
    /\ Finished(scan_id)
    /\ scan_id \notin DOMAIN executing
    /\ \E returncode \in ReturnCodes, copied \in BOOLEAN,
          loaded \in {_load_config(config_file)} :
         \E dry_run \in {DryRunOf(Get(loaded.cfg, "safety", <<>>))},
            backup \in {Truth(Get(Get(loaded.cfg, "safety", <<>>),
                                  "backup_before_delete", Bool(TRUE)))} :
           \E deleted \in {DeleteSelected(dry_run, backup,
                                          SCAN_STATES[scan_id].result[1].dev_debt,
                                          selected_dev_debt_ids, returncode, copied)} :
             \E pruned \in {IF docker_prune /\ ~deleted.raised
                            THEN clean_docker(dry_run, FALSE, returncode)
                            ELSE [raised |-> FALSE, log |-> None, effects |-> <<>>]} :
               /\ config_file' = loaded.file
               /\ tools' = Some([dry_run |-> dry_run, action_history |-> deleted.logs])
               /\ tool_calls' = deleted.calls \o
                      (IF docker_prune /\ ~deleted.raised
                       THEN <<[method |-> "clean_docker", args |-> <<FALSE>>,
                               raised |-> FALSE]>>
                       ELSE <<>>)
               /\ effects' = InitEffects \o deleted.effects \o pruned.effects
               /\ IF deleted.raised
                  THEN /\ response' = Some([endpoint |-> "execute_clean", code |-> 500,
                                            scan_id |-> scan_id])
                       /\ UNCHANGED <<SCAN_STATES, executing>>
                  ELSE /\ SCAN_STATES' = [SCAN_STATES EXCEPT ![scan_id].status = "SUCCESS"]
                       /\ executing' = (scan_id :>
                             [selected_dev_debt_ids |-> selected_dev_debt_ids,
                              docker_prune |-> docker_prune,
                              dry_run |-> dry_run,
                              actions |-> deleted.actions \o
                                 (IF docker_prune
                                  THEN <<[action |-> "docker_prune", target |-> "",
                                          dry_run |-> dry_run]>>
                                  ELSE <<>>)]) @@ executing
                       /\ UNCHANGED response
    /\ UNCHANGED <<classifier_vars, poller, broadcast, websockets>>

\* POST /api/clean/execute from scan.result.status = "SUCCESS" to the response
ExecuteCleanRespond(scan_id) ==
    /\ scan_id \in DOMAIN executing
    /\ SCAN_STATES' = [SCAN_STATES EXCEPT
          ![scan_id].result = Some([@[1] EXCEPT !.status = "SUCCESS"])]
    /\ executing' = [s \in DOMAIN executing \ {scan_id} |-> executing[s]]
    /\ response' = Some([endpoint |-> "execute_clean", code |-> 200,
                         scan_id |-> scan_id,
                         dry_run |-> executing[scan_id].dry_run,
                         actions |-> executing[scan_id].actions])
    /\ UNCHANGED <<classifier_vars, service_vars>>

\* SpecScan: any interleaving of start, the background tasks and the
\* poll, plan and execute requests.  The async start_scan and _run_scan run
\* on the event loop; the plain `def` endpoints run in worker threads, so
\* they can read a ScanState between two assignments of _run_scan.
RunScanStep(scan_id) ==
    \/ RunScanLog(scan_id)
    \/ RunScanSetStatus(scan_id)
    \/ RunScanSetProgress(scan_id)
    \/ RunScanSetResult(scan_id)
    \/ RunScanAnnounce(scan_id)
    \/ RunScanFinish(scan_id)

RunScan == \E scan_id \in ScanIds : RunScanStep(scan_id)

Poll ==
    \E scan_id \in RequestIds :
        \/ get_scan(scan_id)
        \/ get_scan_logs(scan_id)
        \/ get_clean_plan(scan_id)

ExecuteClean ==
    \E scan_id \in RequestIds :
        \/ ExecuteCleanRefused(scan_id)
        \/ \E selected_dev_debt_ids \in SelectedIds, docker_prune \in BOOLEAN :
              ExecuteCleanMark(scan_id, selected_dev_debt_ids, docker_prune)
        \/ ExecuteCleanRespond(scan_id)

NextScan == start_scan \/ RunScan \/ Poll \/ ExecuteClean

SpecScan == Init /\ [][NextScan]_vars

\* GET /api/scan/{scan_id}/logs?offset=k as its worker thread runs it, up to
\* scan.logs[offset:]: the status, the progress and the slice are read.
\* The client sends the total_logs of its last answer as offset.
GetScanLogsRead(scan_id) ==
    /\ scan_id \in DOMAIN SCAN_STATES
    /\ poller.pending = None
    /\ poller.scan_id \in {None, Some(scan_id)}
    /\ poller' = [poller EXCEPT
          !.scan_id = Some(scan_id),
          !.pending = Some([status |-> SCAN_STATES[scan_id].status,
                            progress |-> SCAN_STATES[scan_id].progress,
                            logs |-> LogsFrom(SCAN_STATES[scan_id].logs, poller.offset)])]
    /\ UNCHANGED <<SCAN_STATES, executing, response, classifier_vars, config_file,
                   tool_calls, effects, tools, broadcast, websockets>>

\* the same request from len(scan.logs) to the answer, and the client
\* keeping what it was sent
GetScanLogsRespond ==
    /\ poller.pending # None
    /\ LET scan_id == poller.scan_id[1]
           read    == poller.pending[1]
           total   == Len(SCAN_STATES[scan_id].logs)
       IN  /\ response' = Some([endpoint |-> "get_scan_logs", code |-> 200,
                                scan_id |-> scan_id, status |-> read.status,
                                progress |-> read.progress, logs |-> read.logs,
                                total_logs |-> total])
           /\ poller' = [poller EXCEPT !.offset = total,
                                       !.received = @ \o read.logs,
                                       !.progress = Some(read.progress),
                                       !.pending = None]
    /\ UNCHANGED <<SCAN_STATES, executing, classifier_vars, config_file,
                   tool_calls, effects, tools, broadcast, websockets>>

\* SpecLogs: a scan with a failing or succeeding classification and a
\* client that polls its logs.  _run_scan appends on the event loop while
\* the worker thread of the request reads.
PollLogs == (\E scan_id \in ScanIds : GetScanLogsRead(scan_id)) \/ GetScanLogsRespond

WarnScan == \E scan_id \in ScanIds : RunScanClassifyFails(scan_id)

NextLogs == start_scan \/ RunScan \/ WarnScan \/ PollLogs

SpecLogs == Init /\ [][NextLogs]_vars

\* list.remove(ws), the ValueError of a missing element caught
Remove(ws_clients, ws) == SelectSeq(ws_clients, LAMBDA w : w # ws)

\* scan_ws: the connection is accepted and appended to scan.ws_clients, or
\* closed with 4404 for an unknown scan; the handler then sends the
\* snapshot and waits in receive_text()
WsConnect(websocket, scan_id) ==
    /\ websockets[websocket] = "new"
    /\ IF scan_id \notin DOMAIN SCAN_STATES
       THEN /\ websockets' = [websockets EXCEPT ![websocket] = "closed"]
            /\ UNCHANGED SCAN_STATES
       ELSE /\ websockets' = [websockets EXCEPT ![websocket] = "open"]
            /\ SCAN_STATES' = [SCAN_STATES EXCEPT
                  ![scan_id].ws_clients = Append(@, websocket)]
    /\ UNCHANGED <<executing, response, classifier_vars, config_file, tool_calls,
                   effects, tools, poller, broadcast>>

\* the peer of an open connection goes away; the handler has not run yet
WsDisconnect(websocket) ==
    /\ websockets[websocket] = "open"
    /\ websockets' = [websockets EXCEPT ![websocket] = "gone"]
    /\ UNCHANGED <<SCAN_STATES, executing, response, classifier_vars, config_file,
                   tool_calls, effects, tools, poller, broadcast>>

\* scan_ws: WebSocketDisconnect (or a failed snapshot send) ends the
\* handler, whose finally-block removes the connection from the list
WsCleanup(websocket) ==
    /\ websockets[websocket] = "gone"
    /\ websockets' = [websockets EXCEPT ![websocket] = "closed"]
    /\ SCAN_STATES' = [s \in DOMAIN SCAN_STATES |->
          [SCAN_STATES[s] EXCEPT !.ws_clients = Remove(@, websocket)]]
    /\ UNCHANGED <<executing, response, classifier_vars, config_file, tool_calls,
                   effects, tools, poller, broadcast>>

\* the dead connections removed from the list, one remove() each
RECURSIVE RemoveDead(_, _)
RemoveDead(ws_clients, dead) ==
    IF dead = <<>> THEN ws_clients
    ELSE RemoveDead(Remove(ws_clients, Head(dead)), Tail(dead))

\* _broadcast resumes: the awaited send_text returns, or raises when the
\* connection is gone and the connection is put on the dead list; the
\* for-loop then asks the list iterator, which holds only an index into
\* the live list, for its next element and awaits the send to it; when
\* the iterator is exhausted the dead are removed and the next event of
\* the caller, if any, is broadcast
BroadcastResume ==
    /\ broadcast.active
    /\ LET scan_id   == broadcast.scan_id
           sent      == websockets[broadcast.current] = "open"
           delivered == IF sent THEN broadcast.delivered \cup {broadcast.current}
                        ELSE broadcast.delivered
           dead      == IF sent THEN broadcast.dead
                        ELSE Append(broadcast.dead, broadcast.current)
           clients   == SCAN_STATES[scan_id].ws_clients
           alive     == RemoveDead(clients, dead)
           last      == Some([event |-> broadcast.event, start |-> broadcast.start,
                              delivered |-> delivered])
       IN  IF broadcast.i < Len(clients)
           THEN /\ broadcast' = [broadcast EXCEPT !.i = @ + 1,
                                                  !.current = clients[broadcast.i + 1],
                                                  !.delivered = delivered,
                                                  !.dead = dead]
                /\ UNCHANGED SCAN_STATES
           ELSE /\ SCAN_STATES' = [SCAN_STATES EXCEPT ![scan_id].ws_clients = alive]
                /\ broadcast' =
                      IF broadcast.queue = <<>> \/ alive = <<>>
                      THEN [active |-> FALSE, last |-> last]
                      ELSE [active |-> TRUE, scan_id |-> scan_id,
                            event |-> Head(broadcast.queue),
                            queue |-> Tail(broadcast.queue), i |-> 1,
                            current |-> alive[1], dead |-> <<>>,
                            start |-> Range(alive), delivered |-> {},
                            last |-> last]
    /\ UNCHANGED <<executing, response, classifier_vars, config_file, tool_calls,
                   effects, tools, poller, websockets>>

\* SpecBroadcast: scans whose log() calls broadcast to websocket clients
\* that connect and go away at any time, all on the one event loop: other
\* handlers run whenever _broadcast is suspended in a send
WebSocket ==
    \E websocket \in Clients :
        \/ \E scan_id \in RequestIds : WsConnect(websocket, scan_id)
        \/ WsDisconnect(websocket)
        \/ WsCleanup(websocket)

NextBroadcast == start_scan \/ RunScan \/ WebSocket \/ BroadcastResume

SpecBroadcast == Init /\ [][NextBroadcast]_vars

\* SpecTask: scans whose background task may fail, in the classification
\* try-block or outside it, with clients asking for the clean plan and
\* its execution.  The event loop runs a task that is ready: each step of
\* a coroutine that has not ended is eventually taken (it returns, or it
\* raises).
FailScan == \E scan_id \in ScanIds : RunScanRaises(scan_id)

CleanPlan == \E scan_id \in RequestIds : get_clean_plan(scan_id)

NextTask == start_scan \/ RunScan \/ WarnScan \/ FailScan \/ CleanPlan \/ ExecuteClean

SpecTask ==
    /\ Init
    /\ [][NextTask]_vars
    /\ \A scan_id \in ScanIds : WF_vars(RunScanStep(scan_id))

\* SpecClean: SpecScan with an operator who edits config.yaml between the
\* requests
NextClean == start_scan \/ RunScan \/ EditConfig \/ Poll \/ ExecuteClean

SpecClean == Init /\ [][NextClean]_vars

-----------------------------------------------------------------------------
(* The call history, read by the properties below                          *)

CallIdx    == 1..Len(returned)
PathOf(i)  == calls[i][1]
HashOf(i)  == calls[i][2]
BaseOf(i)  == StaticOf[PathOf(i)].version_match     \* None or Some(base identity)

\* the fingerprint signal fires: a non-empty fingerprint an earlier call carried
FpFires(i)  == Truthy(HashOf(i)) /\ \E j \in 1..(i - 1) : HashOf(j) = HashOf(i)
\* the version signal fires: a base identity an earlier call produced
VerFires(i) == BaseOf(i) # None /\ \E j \in 1..(i - 1) : BaseOf(j) = BaseOf(i)

FirstWithHash(i) == Min({j \in CallIdx : HashOf(j) = HashOf(i)})
FirstWithBase(i) == Min({j \in CallIdx : BaseOf(j) = BaseOf(i)})

VersionMessage(path) == Some("Version of: " \o path)

-----------------------------------------------------------------------------
(* C1 as stated: among the calls that carry the same supplied (non-empty)  *)
(* fingerprint, the first is returned with is_duplicate=False and every    *)
(* later one with is_duplicate=True and duplicate_of = the path of that    *)
(* first call.                                                             *)
C1_AsStated ==
    \A i \in CallIdx :
        Truthy(HashOf(i)) =>
            IF i = FirstWithHash(i)
            THEN ~returned[i].is_duplicate
            ELSE /\ returned[i].is_duplicate
                 /\ returned[i].duplicate_of = Some(PathOf(FirstWithHash(i)))

(* C1 amended: among the calls that carry the same non-empty fingerprint   *)
(* and for which the version signal does not fire, the first call with     *)
(* that fingerprint is returned with is_duplicate=False and every later    *)
(* one with is_duplicate=True and duplicate_of = the path of the first     *)
(* call with that fingerprint; a call for which the version signal fires   *)
(* is a duplicate with the version message instead.                        *)
C1_FingerprintDuplicates ==
    \A i \in CallIdx :
        Truthy(HashOf(i)) =>
            IF VerFires(i)
            THEN /\ returned[i].is_duplicate
                 /\ returned[i].duplicate_of = VersionMessage(PathOf(FirstWithBase(i)))
            ELSE IF i = FirstWithHash(i)
            THEN /\ ~returned[i].is_duplicate
                 /\ returned[i].duplicate_of = None
            ELSE /\ returned[i].is_duplicate
                 /\ returned[i].duplicate_of = Some(PathOf(FirstWithHash(i)))

\* three calls with one digest and three paths, no version signal on the
\* last: it names the first path, not the second
C1_Witness ==
    \E i, j, k \in CallIdx :
        /\ i < j /\ j < k
        /\ Truthy(HashOf(i)) /\ HashOf(j) = HashOf(i) /\ HashOf(k) = HashOf(i)
        /\ PathOf(i) # PathOf(j) /\ PathOf(j) # PathOf(k) /\ PathOf(i) # PathOf(k)
        /\ i = FirstWithHash(i)
        /\ ~VerFires(k)
        /\ returned[k].is_duplicate
        /\ returned[k].duplicate_of = Some(PathOf(i))

(* C2: is_duplicate is True exactly when the fingerprint signal or the     *)
(* version signal fires; whenever the version signal fires (alone or with  *)
(* the fingerprint signal) duplicate_of is "Version of: <first path of     *)
(* that base identity>", never the fingerprint's first path; when only the *)
(* fingerprint signal fires it is the fingerprint's first path.            *)
C2_SignalOrder ==
    \A i \in CallIdx :
        /\ returned[i].is_duplicate <=> (FpFires(i) \/ VerFires(i))
        /\ VerFires(i) =>
              /\ returned[i].duplicate_of = VersionMessage(PathOf(FirstWithBase(i)))
              /\ FpFires(i) =>
                    returned[i].duplicate_of # Some(PathOf(FirstWithHash(i)))
        /\ (FpFires(i) /\ ~VerFires(i)) =>
              returned[i].duplicate_of = Some(PathOf(FirstWithHash(i)))
        /\ (~FpFires(i) /\ ~VerFires(i)) => returned[i].duplicate_of = None

\* both signals fire and point to different originals
C2_Witness ==
    \E i \in CallIdx :
        /\ FpFires(i) /\ VerFires(i)
        /\ PathOf(FirstWithHash(i)) # PathOf(FirstWithBase(i))
        /\ returned[i].duplicate_of = VersionMessage(PathOf(FirstWithBase(i)))

\* the paths, in call order, whose base identity is b
PathsWithBase(b) ==
    LET HasBase(c) == StaticOf[c[1]].version_match = Some(b)
        sel == SelectSeq(calls, HasBase)
    IN  [k \in 1..Len(sel) |-> sel[k][1]]

\* re.match on concrete stems: the first pattern in list order decides, the
\* marker is matched case-insensitively, the group is greedy and keeps its case
VersionExamples ==
    /\ _check_version_pattern("report_v1.pdf") = Some("report")
    /\ _check_version_pattern("report_final.pdf") = Some("report")
    /\ _check_version_pattern("Report_V3.pdf") = Some("Report")
    /\ _check_version_pattern("draft_v2_final.pdf") = Some("draft")
    /\ _check_version_pattern("a_v1_v2.txt") = Some("a_v1")
    /\ _check_version_pattern("plan_copy.txt") = Some("plan")
    /\ _check_version_pattern("log_20240115.txt") = Some("log")
    /\ _check_version_pattern("report.pdf") = None
    /\ _check_version_pattern("v1.pdf") = None

(* C3: the base identity of a file is the first group of the first version *)
(* pattern matching its stem; a call is marked a version duplicate iff an  *)
(* earlier call produced the same base identity, with duplicate_of =       *)
(* "Version of: " + the path of the earliest such call; every matching     *)
(* call appends its path to the identity's list and a non-matching name is *)
(* never recorded; report_v1, report_v2, report_final in that order marks  *)
(* the second and the third and not the first.                             *)
C3_VersionDuplicates ==
    /\ VersionExamples
    /\ \A i \in CallIdx :
          /\ VerFires(i) =>
                /\ returned[i].is_duplicate
                /\ returned[i].duplicate_of = VersionMessage(PathOf(FirstWithBase(i)))
          /\ ~VerFires(i) =>
                \A j \in CallIdx : returned[i].duplicate_of # VersionMessage(PathOf(j))
    /\ DOMAIN seen_filenames = {BaseOf(i)[1] : i \in {j \in CallIdx : BaseOf(j) # None}}
    /\ \A b \in DOMAIN seen_filenames : seen_filenames[b] = PathsWithBase(b)
    /\ (/\ Len(calls) = 3
        /\ PathOf(1) = "/dl/report_v1.pdf"
        /\ PathOf(2) = "/dl/report_v2.pdf"
        /\ PathOf(3) = "/dl/report_final.pdf")
       => /\ ~returned[1].is_duplicate
          /\ returned[2].is_duplicate
          /\ returned[2].duplicate_of = Some("Version of: /dl/report_v1.pdf")
          /\ returned[3].is_duplicate
          /\ returned[3].duplicate_of = Some("Version of: /dl/report_v1.pdf")

\* the three reports in order, with a non-matching name classified before
\* them left unrecorded
C3_Witness ==
    /\ Len(calls) = 3
    /\ PathOf(1) = "/dl/report_v1.pdf"
    /\ PathOf(2) = "/dl/report_v2.pdf"
    /\ PathOf(3) = "/dl/report_final.pdf"
    /\ returned[3].duplicate_of = Some("Version of: /dl/report_v1.pdf")
    /\ seen_filenames["report"] =
          <<"/dl/report_v1.pdf", "/dl/report_v2.pdf", "/dl/report_final.pdf">>

(* C4: the action of every classification is decided by the first         *)
(* applicable rule: duplicate => review; installers => delete; system =>   *)
(* delete; unknown => review; otherwise move.  A duplicate is never        *)
(* deleted, no classification has action keep, and the keep bucket of a    *)
(* plan built from classifier output is empty.                             *)
C4_ActionOrder ==
    /\ \A i \in CallIdx :
          LET c == returned[i]
          IN  /\ c.action = CASE c.is_duplicate            -> "review"
                              [] c.category = "installers" -> "delete"
                              [] c.category = "system"     -> "delete"
                              [] c.category = "unknown"    -> "review"
                              [] OTHER                     -> "move"
              /\ c.is_duplicate => c.action # "delete"
              /\ c.action # "keep"
    /\ plan # None => plan[1].keep = <<>>

\* a first-seen file of unknown type, a duplicate installer and a duplicate
\* system file, all surfaced for review in a plan of everything returned
C4_Witness ==
    /\ plan # None
    /\ plan_input = returned
    /\ plan[1].keep = <<>>
    /\ \E m \in CallIdx :
          /\ ~returned[m].is_duplicate /\ returned[m].category = "unknown"
          /\ returned[m].action = "review"
    /\ \E i, j \in CallIdx :
          /\ returned[i].is_duplicate /\ returned[i].category = "installers"
          /\ returned[j].is_duplicate /\ returned[j].category = "system"
          /\ \E k, l \in 1..Len(plan[1].review) :
                /\ k # l
                /\ plan[1].review[k].source = returned[i].path
                /\ plan[1].review[l].source = returned[j].path

Buckets == {"move", "delete", "review", "keep"}
EntryFields == {"source", "destination", "category", "subcategory", "reason",
                "confidence"}

(* C5: for any list of N classifications the plan has the four buckets     *)
(* move, delete, review, keep, their lengths sum to N, each bucket is the  *)
(* subsequence of the input with that action, in input order, nothing      *)
(* dropped, merged or moved, and an entry carries duplicate_of exactly     *)
(* when its classification has is_duplicate=True.                          *)
C5_PlanPartition ==
    plan # None =>
        LET p == plan[1]
        IN  /\ DOMAIN p = Buckets
            /\ Len(p.move) + Len(p.delete) + Len(p.review) + Len(p.keep)
                   = Len(plan_input)
            /\ \A b \in Buckets :
                  LET HasAction(c) == c.action = b
                      sel == SelectSeq(plan_input, HasAction)
                  IN  /\ Len(p[b]) = Len(sel)
                      /\ \A k \in 1..Len(sel) :
                            LET e == p[b][k]
                                c == sel[k]
                            IN  /\ e.source = c.path
                                /\ e.destination = c.suggested_destination
                                /\ e.category = c.category
                                /\ e.subcategory = c.subcategory
                                /\ e.reason = c.reason
                                /\ e.confidence = c.confidence
                                /\ DOMAIN e = IF c.is_duplicate
                                              THEN EntryFields \cup {"duplicate_of"}
                                              ELSE EntryFields
                                /\ c.is_duplicate => e.duplicate_of = c.duplicate_of

\* the same classification given twice, around a duplicate whose action is
\* move: both copies stay, in the move bucket, in input order
C5_Witness ==
    /\ plan # None
    /\ Len(plan_input) = 3
    /\ plan_input[1] = plan_input[3]
    /\ plan_input[1].action = "move" /\ ~plan_input[1].is_duplicate
    /\ plan_input[2].action = "move" /\ plan_input[2].is_duplicate
    /\ Len(plan[1].move) = 3
    /\ "duplicate_of" \in DOMAIN plan[1].move[2]
    /\ plan[1].review = <<>>

-----------------------------------------------------------------------------
(* What the name of a path matches, evaluated once per path                *)

ScreenshotNamed ==
    {p \in AllPaths : _matches_patterns(PathName(p), SCREENSHOT_PATTERNS)}
PhotoNamed ==
    {p \in AllPaths : _matches_patterns(PathName(p), PHOTO_PATTERNS)}
PatternNamed == ScreenshotNamed \cup PhotoNamed

\* the table rows whose keyword occurs in the lower-cased filename
KeywordHits ==
    [p \in AllPaths |->
        {k \in 1..Len(DOCUMENT_KEYWORDS) :
            Contains(Lower(PathName(p)), DOCUMENT_KEYWORDS[k][1])}]

\* the extension-table result for a classification
TableResult(c) == Lookup(CATEGORY_MAP, c.extension, <<"unknown", "unknown">>)

InstallerExtensions == {".dmg", ".pkg", ".exe", ".msi", ".deb", ".rpm", ".appimage"}

(* C6 as stated: a file with an installer extension for which no duplicate *)
(* signal fires is classified with action=delete, whatever its name.       *)
C6_AsStated ==
    \A i \in CallIdx :
        (returned[i].extension \in InstallerExtensions /\ ~returned[i].is_duplicate)
            => returned[i].action = "delete"

(* C6 amended: a file with an installer extension for which no duplicate   *)
(* signal fires and whose name matches no screenshot or photo pattern is   *)
(* classified installers with action=delete, whatever the rest of its name.*)
C6_InstallersDeleted ==
    \A i \in CallIdx :
        (/\ returned[i].extension \in InstallerExtensions
         /\ ~returned[i].is_duplicate
         /\ PathOf(i) \notin PatternNamed)
            => /\ returned[i].category = "installers"
               /\ returned[i].action = "delete"

\* an installer whose name carries document keywords
C6_Witness ==
    \E i \in CallIdx :
        /\ returned[i].filename = "tax_invoice.appimage"
        /\ KeywordHits[PathOf(i)] # {}
        /\ ~returned[i].is_duplicate
        /\ returned[i].category = "installers"
        /\ returned[i].action = "delete"

(* C7 as stated: a file whose extension is absent from the extension table *)
(* is classified unknown/unknown with confidence <= 0.5 and action review. *)
C7_AsStated ==
    \A i \in CallIdx :
        returned[i].extension \notin DOMAIN CATEGORY_MAP
            => /\ returned[i].category = "unknown"
               /\ returned[i].subcategory = "unknown"
               /\ returned[i].confidence <= 50
               /\ returned[i].action = "review"

(* C7 amended: a file whose extension is absent from the extension table   *)
(* and whose name matches no screenshot or photo pattern is classified     *)
(* unknown/unknown with confidence <= 0.5 and action review.               *)
C7_UnknownExtension ==
    \A i \in CallIdx :
        (/\ returned[i].extension \notin DOMAIN CATEGORY_MAP
         /\ PathOf(i) \notin PatternNamed)
            => /\ returned[i].category = "unknown"
               /\ returned[i].subcategory = "unknown"
               /\ returned[i].confidence <= 50
               /\ returned[i].action = "review"

\* an unlisted extension
C7_Witness ==
    \E i \in CallIdx :
        /\ returned[i].filename = "file.xyz"
        /\ returned[i].extension = ".xyz"
        /\ returned[i].category = "unknown"
        /\ returned[i].confidence = 30
        /\ returned[i].action = "review"

(* C8: at most one filename matcher takes effect, in strict priority: a    *)
(* screenshot-prefix match gives images/screenshots at 0.95 whatever the   *)
(* extension says; otherwise a photo match gives images/photos at 0.95;    *)
(* otherwise, only for an extension-resolved documents file, a keyword may *)
(* refine it (0.85); otherwise the extension-table result stands.          *)
C8_MatcherPriority ==
    \A i \in CallIdx :
        LET c    == returned[i]
            base == TableResult(c)
            hits == KeywordHits[PathOf(i)]
        IN  IF PathOf(i) \in ScreenshotNamed
            THEN /\ c.category = "images" /\ c.subcategory = "screenshots"
                 /\ c.confidence = 95
            ELSE IF PathOf(i) \in PhotoNamed
            THEN /\ c.category = "images" /\ c.subcategory = "photos"
                 /\ c.confidence = 95
            ELSE IF base[1] = "documents" /\ hits # {}
            THEN /\ c.confidence = 85
                 /\ \E k \in hits : c.subcategory = DOCUMENT_KEYWORDS[k][3]
            ELSE /\ c.category = base[1] /\ c.subcategory = base[2]
                 /\ c.confidence = IF base[1] = "unknown" THEN 30 ELSE 90

\* a document whose name starts like a screenshot and contains keywords is
\* images/screenshots
C8_Witness ==
    \E i \in CallIdx :
        /\ returned[i].filename = "screenshot tax_invoice.pdf"
        /\ TableResult(returned[i])[1] = "documents"
        /\ KeywordHits[PathOf(i)] # {}
        /\ returned[i].category = "images"
        /\ returned[i].subcategory = "screenshots"
        /\ returned[i].confidence = 95

FixedCategories == {"documents", "images", "videos", "audio", "code", "data",
                    "models", "archives", "installers", "system", "unknown"}

(* C9: every classification has its category in the fixed set documents,   *)
(* images, videos, audio, code, data, models, archives, installers,        *)
(* system, unknown, files refined by the keyword matcher included.         *)
C9_AsStated ==
    \A i \in CallIdx : returned[i].category \in FixedCategories

(* C10: the keyword matcher runs only for an extension-resolved documents  *)
(* file that matches no screenshot or photo pattern; the first keyword in  *)
(* table order that occurs in the lower-cased filename wins, wherever it   *)
(* occurs; with no keyword the extension-table result stays.               *)
C10_KeywordOrder ==
    \A i \in CallIdx :
        LET c    == returned[i]
            base == TableResult(c)
            hits == KeywordHits[PathOf(i)]
        IN  IF PathOf(i) \in PatternNamed
            THEN c.category = "images" /\ c.confidence = 95
            ELSE IF base[1] = "documents" /\ hits # {}
            THEN LET kw == DOCUMENT_KEYWORDS[Min(hits)]
                 IN  /\ c.subcategory = kw[3]
                     /\ c.category = IF kw[2] = "images" THEN "documents" ELSE kw[2]
                     /\ c.confidence = 85
            ELSE /\ c.category = base[1] /\ c.subcategory = base[2]

\* "tax" occurs first in the name, "invoice" first in the table
C10_Witness ==
    \E i \in CallIdx :
        /\ returned[i].filename = "tax_invoice.pdf"
        /\ Cardinality(KeywordHits[PathOf(i)]) = 2
        /\ returned[i].category = "finance"
        /\ returned[i].subcategory = "invoices"
        /\ returned[i].confidence = 85

(* C11: the confidence of every classification is in [0,1] and follows    *)
(* the path taken: 0.95 for a screenshot or photo pattern match, 0.85 for  *)
(* a document keyword match, 0.9 for a plain extension-table match, and a  *)
(* value in 0.3-0.5 for an unknown type; so confidence is at most 0.5      *)
(* exactly when the category is unknown.                                   *)
C11_Confidence ==
    \A i \in CallIdx :
        LET c    == returned[i]
            base == TableResult(c)
        IN  /\ c.confidence \in 0..100
            /\ c.confidence =
                  (IF PathOf(i) \in PatternNamed THEN 95
                   ELSE IF base[1] = "documents" /\ KeywordHits[PathOf(i)] # {} THEN 85
                   ELSE IF base[1] # "unknown" THEN 90
                   ELSE c.confidence)
            /\ (PathOf(i) \notin PatternNamed /\ base[1] = "unknown")
                  => c.confidence \in 30..50
            /\ (c.confidence <= 50) <=> (c.category = "unknown")

\* a photo-named file with an unlisted extension: images at 0.95
C11_Witness ==
    \E i \in CallIdx :
        /\ returned[i].filename = "IMG_12file.xyz"
        /\ TableResult(returned[i])[1] = "unknown"
        /\ returned[i].category = "images"
        /\ returned[i].confidence = 95

(* C12: the extension of every classification is lower-cased, and a        *)
(* filename ending in .tar.gz or .tar.bz2, in any letter case, has the     *)
(* compound extension .tar.gz / .tar.bz2 rather than the last suffix.      *)
C12_AsStated ==
    \A i \in CallIdx :
        LET c == returned[i]
        IN  /\ c.extension = Lower(c.extension)
            /\ EndsWith(Lower(c.filename), ".tar.gz") => c.extension = ".tar.gz"
            /\ EndsWith(Lower(c.filename), ".tar.bz2") => c.extension = ".tar.bz2"

\* title case as str.title() gives it: a letter is upper-cased when it does
\* not follow a letter and lower-cased when it does
IsLetter(c) == c \in DOMAIN LowerOf \/ c \in DOMAIN UpperOf
RECURSIVE TitleFrom(_, _)
TitleFrom(s, i) ==
    IF i > Len(s) THEN ""
    ELSE (IF i > 1 /\ IsLetter(Char(s, i - 1))
          THEN LowerChar(Char(s, i)) ELSE UpperChar(Char(s, i)))
         \o TitleFrom(s, i + 1)
TitleCase(s) == TitleFrom(s, 1)

\* the destination composed from the fields of a classification, with the
\* folder name of the subcategory spelled by Folder
ComposedDestination(c, now, Folder(_)) ==
    LET base_dir == Lookup(base_destinations, c.category, "~/Downloads/Sorted/Other")
        sub      == IF c.subcategory = "general" THEN ""
                    ELSE "/" \o Folder(c.subcategory)
        dated    == IF c.subcategory = "photos"
                    THEN "/" \o IntToStr(now.year) \o "/" \o TwoDigits(now.month)
                    ELSE ""
    IN  base_dir \o sub \o dated \o "/" \o c.filename

DefaultsAsDocumented ==
    /\ base_destinations["documents"] = "~/Documents/Sorted"
    /\ base_destinations["images"] = "~/Pictures/Sorted"
    /\ base_destinations["installers"] = "~/.Trash"
    /\ base_destinations["system"] = "~/.Trash"

(* C13 as stated: suggested_destination is base_dir(category), then the    *)
(* title-cased subcategory unless it is "general", then year/month of the  *)
(* current run time if and only if the subcategory is photos, then the     *)
(* filename; the default base dirs are as documented.                      *)
C13_AsStated ==
    /\ DefaultsAsDocumented
    /\ \A i \in CallIdx :
          \E now \in Nows :
              returned[i].suggested_destination
                  = ComposedDestination(returned[i], now, TitleCase)

(* C13 amended: as C13, with the subcategory folder spelled with its first *)
(* character upper-cased and every other character lower-cased, and with   *)
(* ~/Downloads/Sorted/Other as base dir of a category that has no entry in *)
(* the mapping.                                                            *)
C13_Destination ==
    /\ DefaultsAsDocumented
    /\ \A i \in CallIdx :
          \E now \in Nows :
              returned[i].suggested_destination
                  = ComposedDestination(returned[i], now, Capitalize)

\* a photo whose name carries January 2024 is filed under the month of the run
C13_Witness ==
    \E i \in CallIdx :
        /\ returned[i].filename = "20240115_093000_file.png"
        /\ returned[i].subcategory = "photos"
        /\ returned[i].suggested_destination
              = "~/Pictures/Sorted/Photos/2025/11/20240115_093000_file.png"

IsPrefix(s, t) == Len(s) <= Len(t) /\ SubSeq(t, 1, Len(s)) = s

(* C14: across any sequence of classify_file calls on one instance both    *)
(* maps only grow: no key is removed, the path stored for a fingerprint    *)
(* never changes once recorded, and the list of a base identity only gets  *)
(* paths appended at its end.                                              *)
C14_MapsGrow ==
    [][ /\ DOMAIN seen_hashes \subseteq DOMAIN seen_hashes'
        /\ \A h \in DOMAIN seen_hashes : seen_hashes'[h] = seen_hashes[h]
        /\ DOMAIN seen_filenames \subseteq DOMAIN seen_filenames'
        /\ \A b \in DOMAIN seen_filenames :
              IsPrefix(seen_filenames[b], seen_filenames'[b]) ]_vars

\* three calls with one fingerprint and different paths: the first path is
\* still the one recorded, and a base identity has a list of two
C14_Witness ==
    /\ Len(calls) = 3
    /\ \A i \in CallIdx : HashOf(i) = Some("h1")
    /\ PathOf(2) # PathOf(1) /\ PathOf(3) # PathOf(1)
    /\ seen_hashes["h1"] = PathOf(1)
    /\ \E b \in DOMAIN seen_filenames : Len(seen_filenames[b]) = 2

(* C15 as stated: classifying the same path with no fingerprint on two     *)
(* fresh instances yields identical category, subcategory, confidence,     *)
(* action and suggested_destination, and no call sees duplicate state from *)
(* an earlier call.                                                        *)
C15_AsStated ==
    \A i, j \in CallIdx :
        PathOf(i) = PathOf(j) =>
            /\ returned[i].category = returned[j].category
            /\ returned[i].subcategory = returned[j].subcategory
            /\ returned[i].confidence = returned[j].confidence
            /\ returned[i].action = returned[j].action
            /\ returned[i].suggested_destination = returned[j].suggested_destination
            /\ ~returned[i].is_duplicate /\ ~returned[j].is_duplicate

(* C15 amended: the same path with no fingerprint on two fresh instances   *)
(* yields identical category, subcategory, confidence and action, and an   *)
(* identical suggested_destination unless the subcategory is photos; no    *)
(* call sees duplicate state from an earlier call.                         *)
C15_FreshInstances ==
    \A i, j \in CallIdx :
        PathOf(i) = PathOf(j) =>
            /\ returned[i].category = returned[j].category
            /\ returned[i].subcategory = returned[j].subcategory
            /\ returned[i].confidence = returned[j].confidence
            /\ returned[i].action = returned[j].action
            /\ returned[i].subcategory # "photos" =>
                  returned[i].suggested_destination = returned[j].suggested_destination
            /\ ~returned[i].is_duplicate /\ ~returned[j].is_duplicate
            /\ returned[i].reason = returned[j].reason

\* a version-named file classified twice: the second call is no duplicate
C15_Witness ==
    /\ Len(calls) = 2
    /\ PathOf(1) = "/dl/notes (1).txt" /\ PathOf(2) = PathOf(1)
    /\ StaticOf[PathOf(1)].version_match # None
    /\ ~returned[2].is_duplicate
    /\ returned[2].action = "move"
    /\ returned[2] = returned[1]

\* the entries of the listing that are regular files not named with a dot
Eligible(e) == e.kind = "file" /\ ~StartsWithDot(e.name)
Classifiable(e) == Eligible(e) /\ ~e.raises
ReturnedPaths == [k \in 1..Len(returned) |-> returned[k].path]
ListedPaths(entries) == [k \in 1..Len(entries) |-> Directory \o "/" \o entries[k].name]

(* C16: classify_directory returns one classification for each immediate   *)
(* entry that is a regular file whose name does not start with '.',        *)
(* without recursion and without fingerprints; an exception while          *)
(* classifying one entry skips only that entry, the others are still       *)
(* classified and returned.                                                *)
C16_AsStated ==
    listing # None =>
        /\ error = None
        /\ ReturnedPaths = ListedPaths(SelectSeq(listing[1], Classifiable))
        /\ \A i \in CallIdx : HashOf(i) = None

(* C17: a directory holding invoice_march.pdf, invoice_march (1).pdf,      *)
(* setup.exe and random.xyz gives the plan review = [invoice_march (1).pdf *)
(* as duplicate, random.xyz as unknown], delete = [setup.exe],             *)
(* move = [invoice_march.pdf as finance/invoices], keep = [].              *)
C17_AsStated ==
    (/\ listing # None
     /\ {listing[1][k] : k \in 1..Len(listing[1])} =
            {DirEntry("invoice_march.pdf", "file", FALSE),
             DirEntry("invoice_march (1).pdf", "file", FALSE),
             DirEntry("setup.exe", "file", FALSE),
             DirEntry("random.xyz", "file", FALSE)})
        => /\ plan # None
           /\ {e.source : e \in {plan[1].review[k] : k \in 1..Len(plan[1].review)}}
                 = {"/dl/invoice_march (1).pdf", "/dl/random.xyz"}
           /\ \A k \in 1..Len(plan[1].review) :
                 plan[1].review[k].source = "/dl/invoice_march (1).pdf"
                     => "duplicate_of" \in DOMAIN plan[1].review[k]
           /\ {e.source : e \in {plan[1].delete[k] : k \in 1..Len(plan[1].delete)}}
                 = {"/dl/setup.exe"}
           /\ {e.source : e \in {plan[1].move[k] : k \in 1..Len(plan[1].move)}}
                 = {"/dl/invoice_march.pdf"}
           /\ plan[1].keep = <<>>

(* C18: classify_file changes only seen_hashes and seen_filenames: an      *)
(* absent or empty fingerprint, or one already recorded, leaves            *)
(* seen_hashes unchanged; a name matching no version pattern leaves        *)
(* seen_filenames unchanged; base_destinations is never modified; and      *)
(* generate_organization_plan changes neither map nor the classifications  *)
(* it is given.                                                            *)
C18_Frame ==
    [][ /\ base_destinations' = base_destinations
        /\ Len(calls') = Len(calls) + 1 =>
              LET file_path == calls'[Len(calls')][1]
                  file_hash == calls'[Len(calls')][2]
              IN  /\ (~Truthy(file_hash) \/ file_hash[1] \in DOMAIN seen_hashes)
                        => seen_hashes' = seen_hashes
                  /\ StaticOf[file_path].version_match = None
                        => seen_filenames' = seen_filenames
                  /\ SubSeq(returned', 1, Len(returned)) = returned
                  /\ SubSeq(calls', 1, Len(calls)) = calls
        /\ calls' = calls =>
              /\ seen_hashes' = seen_hashes
              /\ seen_filenames' = seen_filenames
              /\ returned' = returned
              /\ plan_input' = returned ]_vars

\* a recorded fingerprint seen again, an empty fingerprint and no version
\* name: one fingerprint recorded, no base identity recorded, and a plan built
C18_Witness ==
    /\ Len(calls) = 3
    /\ HashOf(1) = Some("h1") /\ HashOf(2) = Some("h1") /\ HashOf(3) = Some("")
    /\ PathOf(1) # PathOf(2)
    /\ DOMAIN seen_hashes = {"h1"}
    /\ seen_hashes["h1"] = PathOf(1)
    /\ seen_filenames = <<>>
    /\ plan # None

\* two finished calls for different paths with one non-empty fingerprint
SameFingerprint(t, u) ==
    /\ t # u
    /\ threads[t].pc = "done" /\ threads[u].pc = "done"
    /\ Truthy(threads[t].file_hash)
    /\ threads[t].file_hash = threads[u].file_hash
    /\ threads[t].file_path # threads[u].file_path

\* t had returned when u was entered
Before(t, u) == threads[t].result <= threads[u].began
Overlapped(t, u) == ~Before(t, u) /\ ~Before(u, t)
\* every other call made so far was entered after t had returned
RanAlone(t) ==
    \A w \in Threads \ {t} : threads[w].pc = "idle" \/ Before(t, w)

(* C19: two classify_file calls for different paths with the same          *)
(* fingerprint on one shared instance: when they run one after the other   *)
(* exactly one of them, the later one, is returned as a duplicate; both    *)
(* can be returned with is_duplicate=False only when the calls overlapped. *)
C19_SequentialMarksOne ==
    \A t, u \in Threads :
        SameFingerprint(t, u) =>
            /\ Before(t, u) => returned[threads[u].result].is_duplicate
            /\ (Before(t, u) /\ threads[t].began = 0 /\ RanAlone(t))
                  => ~returned[threads[t].result].is_duplicate
            /\ (~returned[threads[t].result].is_duplicate
                  /\ ~returned[threads[u].result].is_duplicate)
                  => Overlapped(t, u)

\* the race: both calls tested the fingerprint before either recorded it,
\* and both are returned as originals
C19_Witness ==
    \E t, u \in Threads :
        /\ SameFingerprint(t, u)
        /\ StaticOf[threads[t].file_path].version_match = None
        /\ ~returned[threads[t].result].is_duplicate
        /\ ~returned[threads[u].result].is_duplicate
        /\ Overlapped(t, u)

ScanStatuses == {"IDLE", "SCANNING", "REVIEW", "SUCCESS"}
StatusRank(status) ==
    CASE status = "IDLE" -> 0
      [] status = "SCANNING" -> 1
      [] status = "REVIEW" -> 2
      [] status = "SUCCESS" -> 3

LoggedMethods == {"move_file", "delete_file", "create_directory"}
LoggingCalls == SelectSeq(tool_calls, LAMBDA c : c.method \in LoggedMethods \/ c.method = "create_stub_file")
ActionTypeOf(method) ==
    CASE method = "move_file" -> "move"
      [] method = "delete_file" -> "delete"
      [] method = "create_directory" -> "mkdir"
      [] method = "create_stub_file" -> "create_stub"

(* C23: on a TerminalTools instance built with dry_run=True no subprocess  *)
(* is started and no target path is created, moved, copied, written or    *)
(* deleted (only the instance's own log is written), by run_command,      *)
(* move_file, delete_file, create_directory, clean_docker and             *)
(* create_stub_file alike; and each move_file, delete_file and            *)
(* create_directory call has appended exactly one ActionLog with          *)
(* dry_run=True to action_history, in call order.                         *)
C23_DryRunChangesNothing ==
    (tools # None /\ tools[1].dry_run) =>
        /\ \A k \in 1..Len(effects) : effects[k].op = "log"
        /\ \A k \in 1..Len(tool_calls) : ~tool_calls[k].raised
        /\ Len(tools[1].action_history) = Len(LoggingCalls)
        /\ \A k \in 1..Len(LoggingCalls) :
              LET log == tools[1].action_history[k]
              IN  /\ log.dry_run
                  /\ log.success
                  /\ log.action_type = ActionTypeOf(LoggingCalls[k].method)
                  /\ log.source = IF LoggingCalls[k].method = "create_stub_file"
                                  THEN LoggingCalls[k].args[1]
                                  ELSE expanduser(LoggingCalls[k].args[1])

C23_Witness ==
    /\ tools # None /\ tools[1].dry_run
    /\ Len(tool_calls) >= 2
    /\ tool_calls[1].method = "delete_file" /\ tool_calls[1].args[2]
    /\ tool_calls[2].method = "move_file"
    /\ Len(tools[1].action_history) = 2
    /\ tools[1].action_history[1].action_type = "delete"

\* the fields of a UiConfig that the round trip is about
RoundTripFields == {"provider", "model", "baseUrl", "dryRun", "approval", "backup"}

\* the keys of the loaded configuration that put_config assigns
Covered ==
    [llm |-> {"provider", "model", "base_url"},
     scan_paths |-> {"primary", "workspace"},
     safety |-> {"dry_run", "require_approval", "backup_before_delete"}]

\* the loaded configuration without the keys put_config assigns
Uncovered(cfg) ==
    [s \in DOMAIN cfg |->
       [k \in DOMAIN cfg[s] \ (IF s \in DOMAIN Covered THEN Covered[s] ELSE {})
          |-> cfg[s][k]]]

(* C24: after PUT /api/config a GET /api/config returns the provider,      *)
(* model, baseUrl, dryRun, approval and backup that were PUT; the same PUT *)
(* again leaves the stored file as it is; and a PUT leaves every key of    *)
(* the configuration that it does not assign (such as                      *)
(* scan_paths.secondary) with the value it had.                            *)
C24_ConfigRoundTrip ==
    /\ []((response # None /\ response[1].endpoint = "put_config")
            => LET new_cfg == response[1].sent
                   loaded  == _load_config(config_file)
                   ui      == UiConfigOf(loaded.cfg)
               IN  /\ response[1].code = 200
                   /\ ui # None
                   /\ \A f \in RoundTripFields : ui[1][f] = new_cfg[f]
                   /\ _save_config(PutConfigOf(loaded.cfg, new_cfg)) = config_file)
    /\ [][(response' # None /\ response'[1].endpoint = "put_config"
             /\ put_config(response'[1].sent))
            => Uncovered(_load_config(config_file').cfg)
               = Uncovered(_load_config(config_file).cfg)]_vars

C24_Witness ==
    /\ response # None
    /\ response[1].endpoint = "put_config"
    /\ response[1].sent.model = "true"
    /\ ~response[1].sent.dryRun
    /\ "secondary" \in DOMAIN config_file[1].scan_paths
    /\ config_file[1].scan_paths.secondary = SeqNode(<<"/mnt/archive", "'123'">>)
    /\ "api_key" \in DOMAIN config_file[1].llm

ScanEndpoints == {"get_scan", "get_scan_logs"}
CleanEndpoints == {"execute_clean", "get_clean_plan"}

\* a request to one of the four endpoints is answered in this step
Answers(endpoint, id) ==
    /\ response' # response
    /\ response' # None
    /\ response'[1].endpoint = endpoint
    /\ response'[1].scan_id = id

(* C21: a request for a scan_id that was never issued is answered 404 by   *)
(* get_scan, get_scan_logs, execute_clean and get_clean_plan; the two      *)
(* clean endpoints also answer 404 for an existing scan with no result     *)
(* yet; in each such step no scan state is created or changed, no          *)
(* execute request is left pending and no TerminalTools is built or called.*)
C21_NotFoundChangesNothing ==
    [][\A id \in RequestIds, endpoint \in ScanEndpoints \cup CleanEndpoints :
          (/\ Answers(endpoint, id)
           /\ \/ id \notin DOMAIN SCAN_STATES
              \/ endpoint \in CleanEndpoints /\ SCAN_STATES[id].result = None)
            => /\ response'[1].code = 404
               /\ SCAN_STATES' = SCAN_STATES
               /\ executing' = executing
               /\ tools' = tools
               /\ tool_calls' = tool_calls
               /\ effects' = effects
               /\ config_file' = config_file]_vars

\* execute_clean refused for a scan that is still running
C21_Witness ==
    /\ response # None
    /\ response[1].endpoint = "execute_clean"
    /\ response[1].code = 404
    /\ response[1].scan_id \in DOMAIN SCAN_STATES
    /\ SCAN_STATES[response[1].scan_id].result = None
    /\ SCAN_STATES[response[1].scan_id].status = "SCANNING"
    /\ tools = None

\* safety.dry_run as config.yaml gives it: true when the file, the safety
\* section or the key is missing
ConfiguredDryRun ==
    IF config_file = None THEN TRUE
    ELSE LET doc == yaml_safe_load(config_file[1])
         IN  IF "safety" \in DOMAIN doc /\ "dry_run" \in DOMAIN doc["safety"]
             THEN Truth(doc["safety"]["dry_run"])
             ELSE TRUE

RealOps == {"subprocess", "makedirs", "copy2", "write"}

(* C22: execute_clean runs in the mode of safety.dry_run of the            *)
(* configuration, true when not configured: its TerminalTools and its      *)
(* response carry that mode; in dry-run mode it starts no subprocess (no   *)
(* rm, no docker prune) and copies nothing to the backup directory,        *)
(* whatever ids are selected and whether docker_prune is asked; a selected *)
(* id with no item in the scan's dev_debt leads to no delete_file call.    *)
C22_ExecuteInConfiguredMode ==
    [][\A id \in ScanIds :
          /\ (id \in DOMAIN executing' /\ id \notin DOMAIN executing)
               => LET req == executing'[id]
                      dev_debt == SCAN_STATES[id].result[1].dev_debt
                  IN  /\ req.dry_run = ConfiguredDryRun
                      /\ tools'[1].dry_run = ConfiguredDryRun
                      /\ ConfiguredDryRun =>
                            \A k \in 1..Len(effects') : effects'[k].op \notin RealOps
                      /\ \A k \in 1..Len(tool_calls') :
                            tool_calls'[k].method = "delete_file" =>
                               \E d \in 1..Len(dev_debt) :
                                  /\ dev_debt[d].id \in Range(req.selected_dev_debt_ids)
                                  /\ dev_debt[d].path = tool_calls'[k].args[1]
                      /\ (\E k \in 1..Len(tool_calls') :
                             tool_calls'[k].method = "clean_docker") <=> req.docker_prune
          /\ (id \in DOMAIN executing /\ id \notin DOMAIN executing')
               => /\ response'[1].endpoint = "execute_clean"
                  /\ response'[1].code = 200
                  /\ response'[1].dry_run = executing[id].dry_run]_vars

\* a dry-run execute with two selected ids and docker_prune: clean_docker is
\* called and nothing real is done
C22_Witness ==
    \E id \in DOMAIN executing :
        /\ executing[id].selected_dev_debt_ids = <<2, 1>>
        /\ executing[id].docker_prune
        /\ executing[id].dry_run
        /\ config_file # None
        /\ \E k \in 1..Len(tool_calls) : tool_calls[k].method = "clean_docker"
        /\ \A k \in 1..Len(effects) : effects[k].op \notin RealOps


C26_AsStated ==
    broadcast.last # None =>
        \A websocket \in broadcast.last[1].start :
            websockets[websocket] = "open" =>
                websocket \in broadcast.last[1].delivered

\* the scan is in REVIEW as the background task leaves it
InReview(id) ==
    /\ SCAN_STATES[id].status = "REVIEW"
    /\ SCAN_STATES[id].progress = 100
    /\ SCAN_STATES[id].result # None

SamePathAgain(i, j) ==
    /\ i < j
    /\ PathOf(i) = PathOf(j)
    /\ \/ Truthy(HashOf(j)) /\ HashOf(i) = HashOf(j)
       \/ BaseOf(j) # None

\* duplicate_of names the path: the path itself or "Version of: <path>"
Names(duplicate_of, path) == duplicate_of \in {Some(path), VersionMessage(path)}

DistinctPaths == \A i, j \in CallIdx : i # j => PathOf(i) # PathOf(j)

\* for pairwise distinct paths every duplicate_of names the path of a
\* strictly earlier, different call
EarlierDifferentCall ==
    DistinctPaths =>
        \A j \in CallIdx :
            returned[j].duplicate_of # None =>
                \E i \in 1..(j - 1) :
                    /\ PathOf(i) # PathOf(j)
                    /\ Names(returned[j].duplicate_of, PathOf(i))

(* C28 as stated: a second classification of a path on one instance, with  *)
(* the same non-empty fingerprint or a version-pattern name, returns       *)
(* is_duplicate=True, action=review and a duplicate_of naming that same    *)
(* path; for pairwise distinct paths every duplicate_of names the path of  *)
(* a strictly earlier, different call.                                     *)
C28_AsStated ==
    /\ \A i, j \in CallIdx :
          SamePathAgain(i, j) =>
              /\ returned[j].is_duplicate
              /\ returned[j].action = "review"
              /\ Names(returned[j].duplicate_of, PathOf(j))
    /\ EarlierDifferentCall

(* C28 amended: such a second classification returns is_duplicate=True,    *)
(* action=review and a duplicate_of naming the first path the instance     *)
(* recorded for the version base name of the file (when its name matches a *)
(* version pattern) or else for its fingerprint; that is the same path     *)
(* when no different path was classified with that base name, or else     *)
(* that fingerprint, before it; for pairwise distinct paths every          *)
(* duplicate_of names the path of a strictly earlier, different call.      *)
C28_NotIdempotent ==
    /\ \A i, j \in CallIdx :
          SamePathAgain(i, j) =>
              LET first == IF BaseOf(j) # None THEN FirstWithBase(j)
                           ELSE FirstWithHash(j)
              IN  /\ returned[j].is_duplicate
                  /\ returned[j].action = "review"
                  /\ returned[j].duplicate_of =
                        (IF BaseOf(j) # None THEN VersionMessage(PathOf(first))
                         ELSE Some(PathOf(first)))
                  /\ (\A k \in 1..(j - 1) :
                         (IF BaseOf(j) # None THEN BaseOf(k) = BaseOf(j)
                          ELSE HashOf(k) = HashOf(j)) => PathOf(k) = PathOf(j))
                        => Names(returned[j].duplicate_of, PathOf(j))
    /\ EarlierDifferentCall

\* a path classified twice with a fingerprint another path carried first:
\* the second classification names the other path
C28_Witness ==
    \E i, j \in CallIdx :
        /\ SamePathAgain(i, j)
        /\ BaseOf(j) = None
        /\ returned[j].is_duplicate
        /\ returned[j].duplicate_of = Some(PathOf(FirstWithHash(j)))
        /\ PathOf(FirstWithHash(j)) # PathOf(j)

KeywordGroups == {"finance", "legal", "career", "work"}
Fallback == "~/Downloads/Sorted/Other"

\* call i is for an extension-resolved documents file whose first keyword,
\* in table order, is of one of the four keyword groups and whose name
\* matches no screenshot or photo pattern
KeywordDocument(i) ==
    /\ TableResult(returned[i])[1] = "documents"
    /\ PathOf(i) \notin PatternNamed
    /\ KeywordHits[PathOf(i)] # {}
    /\ DOCUMENT_KEYWORDS[Min(KeywordHits[PathOf(i)])][2] \in KeywordGroups

\* ~/Downloads/Sorted/Other/<Subcategory>/<filename>
UnderFallback(c) ==
    c.suggested_destination =
        PathJoin(PathJoin(Fallback, Capitalize(c.subcategory)), c.filename)

(* C29 as stated: with the default destinations a keyword document is      *)
(* returned with the keyword group as category, action move and a          *)
(* destination under ~/Downloads/Sorted/Other/<Subcategory>/; a supplied   *)
(* base_destinations mapping replaces the defaults entirely, and every     *)
(* category missing from it goes to the same fallback.                     *)
C29_AsStated ==
    /\ base_destinations_arg = None =>
          \A i \in CallIdx :
              KeywordDocument(i) =>
                  /\ returned[i].category =
                        DOCUMENT_KEYWORDS[Min(KeywordHits[PathOf(i)])][2]
                  /\ returned[i].action = "move"
                  /\ UnderFallback(returned[i])
    /\ base_destinations_arg # None =>
          /\ base_destinations = base_destinations_arg[1]
          /\ \A i \in CallIdx :
                returned[i].category \notin DOMAIN base_destinations_arg[1]
                   => IsPrefix(Fallback \o "/", returned[i].suggested_destination)

(* C29 amended: with the default destinations a keyword document is        *)
(* returned with the keyword group as category and a destination under     *)
(* ~/Downloads/Sorted/Other/<Subcategory>/, with action move unless it is  *)
(* marked a duplicate (then review); a supplied non-empty mapping replaces *)
(* the defaults entirely and every category missing from it goes to the    *)
(* same fallback; an empty mapping, like no mapping, selects the defaults. *)
C29_KeywordFallback ==
    /\ \A i \in CallIdx :
          (KeywordDocument(i) /\ base_destinations = DefaultDestinations)
             => /\ returned[i].category =
                      DOCUMENT_KEYWORDS[Min(KeywordHits[PathOf(i)])][2]
                /\ returned[i].action =
                      (IF returned[i].is_duplicate THEN "review" ELSE "move")
                /\ UnderFallback(returned[i])
    /\ (base_destinations_arg = None \/ DOMAIN base_destinations_arg[1] = {})
          => base_destinations = DefaultDestinations
    /\ (base_destinations_arg # None /\ DOMAIN base_destinations_arg[1] # {})
          => /\ base_destinations = base_destinations_arg[1]
             /\ \A i \in CallIdx :
                   returned[i].category \notin DOMAIN base_destinations_arg[1]
                      => IsPrefix(Fallback \o "/", returned[i].suggested_destination)

\* an instance built with a mapping that names documents only: a finance
\* document and an image both go to the fallback
C29_Witness ==
    /\ base_destinations_arg # None
    /\ DOMAIN base_destinations_arg[1] = {"documents"}
    /\ \E i, j \in CallIdx :
          /\ KeywordDocument(i)
          /\ returned[i].category = "finance"
          /\ UnderFallback(returned[i])
          /\ returned[j].category = "images"
          /\ IsPrefix(Fallback \o "/", returned[j].suggested_destination)

\* what C30 says of the classification returned by call i, given the
\* action it expects for the two extensions the table has
CompoundArchive(i, archive_action) ==
    LET c     == returned[i]
        plain == PathOf(i) \notin PatternNamed
    IN  /\ (EndsWith(c.filename, ".tar.bz2") /\ plain)
              => /\ c.extension = ".tar.bz2"
                 /\ c.category = "unknown"
                 /\ c.subcategory = "unknown"
                 /\ c.confidence = 30
                 /\ c.action = "review"
        /\ EndsWith(c.filename, ".tar.gz")
              => /\ TableResult(c) = <<"archives", "targz">>
                 /\ plain => c.category = "archives" /\ c.subcategory = "targz"
                 /\ c.action = archive_action
        /\ (EndsWith(c.filename, ".bz2") /\ ~EndsWith(c.filename, ".tar.bz2"))
              => /\ TableResult(c) = <<"archives", "bzip2">>
                 /\ plain => c.category = "archives" /\ c.subcategory = "bzip2"
                 /\ c.action = archive_action

(* C30 as stated: a file whose name ends in .tar.bz2 and matches no         *)
(* screenshot or photo pattern is classified unknown/unknown with          *)
(* confidence 0.3 and action review, its extension being the unit .tar.bz2 *)
(* that the table lacks; a name ending in .tar.gz resolves to              *)
(* archives/targz and a plain .bz2 to archives/bzip2, both with action     *)
(* move.                                                                   *)
C30_AsStated ==
    /\ ".tar.bz2" \notin DOMAIN CATEGORY_MAP
    /\ \A i \in CallIdx : CompoundArchive(i, "move")

(* C30 amended: as stated, except that a .tar.gz or plain .bz2 file is      *)
(* returned with action move only when no duplicate signal fires for it;   *)
(* when one fires the action is review.                                    *)
C30_CompoundArchives ==
    /\ ".tar.bz2" \notin DOMAIN CATEGORY_MAP
    /\ \A i \in CallIdx :
          CompoundArchive(i, IF returned[i].is_duplicate THEN "review" ELSE "move")

\* a .tar.bz2 returned unknown and to review, then the .tar.gz of the same
\* base identity returned as archives/targz, a duplicate to review
C30_Witness ==
    /\ Len(returned) = 2
    /\ returned[1].filename = "backup_v1.tar.bz2"
    /\ returned[1].extension = ".tar.bz2"
    /\ returned[1].category = "unknown"
    /\ returned[1].subcategory = "unknown"
    /\ returned[1].confidence = 30
    /\ returned[1].action = "review"
    /\ returned[2].filename = "backup_v1.tar.gz"
    /\ returned[2].category = "archives"
    /\ returned[2].subcategory = "targz"
    /\ returned[2].is_duplicate
    /\ returned[2].action = "review"

=============================================================================
